---- MODULE Spec2Model ----
(***************************************************************************)
(* Tool-selection and multi-step execution engine of rag-js-app.           *)
(*                                                                         *)
(* The model follows createToolSelectionGraph (the LangGraph workflow and  *)
(* its invoke wrapper) and createToolSelectionWorkflow with the direct     *)
(* multishot workflow.  One action per graph node; the conditional edges   *)
(* of a node are part of the node's action.  External collaborators (the   *)
(* language model, the calculator, the search tool, the RAG chain and the  *)
(* graph runtime) answer nondeterministically.                             *)
(*                                                                         *)
(* Texts are records: k is the kind of text (which template or which       *)
(* producer), empty tells the empty string, marks is the set of failure    *)
(* words the text contains ("Error", "error", "dontknow", "invalid"), num  *)
(* is the number a numeric extraction finds in it (NoNum when none) and    *)
(* of is the id of the sub-question the text was produced for (0: none).   *)
(* Sub-question ids are numbers: id n stands for the string "q<n>".        *)
(***************************************************************************)
EXTENDS Integers, Sequences, FiniteSets, TLC

\* ------------------------------------------------------------------------
\* Bounds of the model
\* ------------------------------------------------------------------------
\* Longest sub-question list the language model's decomposition may contain.
MaxSubQ == 4

\* Number of distinct cities the city pattern may find in a query.
MaxCities == 2

\* ------------------------------------------------------------------------
\* Texts
\* ------------------------------------------------------------------------
NoNum == 0 - 1

Text(kind, isEmpty, markSet, number, forId) ==
  [k |-> kind, empty |-> isEmpty, marks |-> markSet, num |-> number, of |-> forId]

NULL == Text("null", TRUE, {}, NoNum, 0)

\* A fixed sentence or a template of the code: non-empty, no failure word.
Fixed(kind) == Text(kind, FALSE, {}, NoNum, 0)

\* JavaScript truthiness of a string-or-null value.
Falsy(t) == t.k = "null" \/ t.empty

\* Texts the language model may answer with.
ModelTexts == { Text("model", TRUE, {}, NoNum, 0), Text("model", FALSE, {}, NoNum, 0) }

\* ------------------------------------------------------------------------
\* Queries.  A query is a record of the outcomes of the regular expressions
\* the code applies to it (evaluated on the concrete text given in name; the
\* second component of name is the number of cities named in the text).
\*   multishot : some MULTISHOT_PATTERNS entry matches
\*   calc      : some CALCULATOR_PATTERNS entry matches
\*   serp      : non-blank and some SERPAPI_PATTERNS entry matches
\*   popMult   : the population/multiply test of createDefaultDecomposition
\*   nCities   : number of distinct cities found by cityPattern
\*   arith     : the arithmetic vocabulary test of the emergency decomposition
\*   isPop     : /population|people|residents|inhabitants/i
\*   firstNum  : the first number /\d+(\.\d+)?/ finds, in hundredths, or NoNum
\*   aggMult   : multiplier found by aggregationNode's multiplyMatch, in
\*               hundredths, or NoNum
\*   pct       : number found by the wrapper's percentPattern, in hundredths,
\*               or NoNum
\*   bypass    : some MULTISHOT_BYPASS_PATTERNS entry matches
\*   nLoc      : number of distinct locations found by locationPattern
\*   hasMul, hasAdd, hasPct : hasMultiplication, hasAddition and
\*               hasPercentage of executeMultishotWorkflow
\* ------------------------------------------------------------------------
Query(nm, ms, ca, se, pm, nc, ar, ip, fn, am, pt, bp, nl, hm, ha, hp) ==
  [name |-> nm, multishot |-> ms, calc |-> ca, serp |-> se, popMult |-> pm,
   nCities |-> nc, arith |-> ar, isPop |-> ip, firstNum |-> fn, aggMult |-> am,
   pct |-> pt, bypass |-> bp, nLoc |-> nl, hasMul |-> hm, hasAdd |-> ha, hasPct |-> hp]

QCalc    == Query(<<"what is 25 * 4?", 0>>,
                  FALSE, TRUE, TRUE, FALSE, 0, FALSE, FALSE, 2500, 400, NoNum, FALSE, 0,
                  FALSE, FALSE, FALSE)
\* A calculator pattern only: no question word, no composite pattern.
QCalcOnly == Query(<<"25 * 4 = ?", 0>>,
                  FALSE, TRUE, FALSE, FALSE, 0, FALSE, FALSE, 2500, 400, NoNum, FALSE, 0,
                  FALSE, FALSE, FALSE)
\* A composite pattern ("%"), a calculator pattern and a search pattern.
QCalcPct == Query(<<"what is 15% of 80 + 4?", 0>>,
                  TRUE, TRUE, TRUE, FALSE, 0, FALSE, FALSE, 1500, NoNum, 1500, FALSE, 0,
                  FALSE, FALSE, TRUE)
QSearch  == Query(<<"who won the game last night", 0>>,
                  FALSE, FALSE, TRUE, FALSE, 0, FALSE, FALSE, NoNum, NoNum, NoNum, FALSE, 0,
                  FALSE, FALSE, FALSE)
QPlain   == Query(<<"tell me a joke", 0>>,
                  FALSE, FALSE, FALSE, FALSE, 0, FALSE, FALSE, NoNum, NoNum, NoNum, FALSE, 0,
                  FALSE, FALSE, FALSE)
QScenB   == Query(<<"population of Chicago plus population of Houston, multiplied by 0.05", 2>>,
                  TRUE, FALSE, FALSE, FALSE, 2, FALSE, TRUE, 5, NoNum, NoNum, TRUE, 2,
                  TRUE, FALSE, FALSE)
\* population ... times <number> with c of the known cities named in it,
\* e.g. "population of Paris times 3" (c = 0), "population of Boston times 3"
\* (c = 1), "population of Chicago and Houston times 3" (c = 2).
QPopTimes(c) == Query(<<"population of <c cities> times 3", c>>,
                  TRUE, FALSE, FALSE, TRUE, c, FALSE, TRUE, 300, 300, NoNum, TRUE, c,
                  TRUE, FALSE, FALSE)

\* Queries a bypass pattern sends to the direct workflow and in which
\* hasAddition finds "total" or "combined".
QTotal   == Query(<<"total population of Chicago and Houston combined", 2>>,
                  TRUE, FALSE, FALSE, FALSE, 2, FALSE, TRUE, NoNum, NoNum, NoNum, TRUE, 2,
                  FALSE, TRUE, FALSE)
QCombinedTimes == Query(<<"population of Chicago and Houston combined, times 3", 2>>,
                  TRUE, FALSE, FALSE, TRUE, 2, FALSE, TRUE, 300, 300, NoNum, TRUE, 2,
                  TRUE, TRUE, FALSE)

Queries == {QCalc, QCalcOnly, QCalcPct, QSearch, QPlain, QScenB}
             \cup { QPopTimes(c) : c \in 0..MaxCities }

\* /\d+/.test(query)
HasDigits(query) == query.firstNum # NoNum

\* The text of a sub-question, as a query: routeSubQuestion makes it the
\* state's query.  kind tells the producer; fn, am and pt are the numbers
\* the number pattern, the aggregator's multiplyMatch and the wrapper's
\* percentPattern find in it.
SubQuestionText(kind, n, fn, am, pt) ==
  Query(<<kind, n>>, FALSE, FALSE, FALSE, FALSE, 0, FALSE, FALSE, fn, am, pt, FALSE, 0,
        FALSE, FALSE, FALSE)

\* ------------------------------------------------------------------------
\* Sub-questions
\* ------------------------------------------------------------------------
SubQuestion(i, q, tool, deps) ==
  [id |-> i, question |-> q, toolType |-> tool, dependsOn |-> deps,
   completed |-> FALSE, result |-> NULL]

Range(s) == { s[i] : i \in 1..Len(s) }

\* Array.prototype.find: the first of the indices whose element satisfies the
\* callback (hits), 0 if there is none.
FindIndex(hits) ==
  IF hits = {} THEN 0 ELSE CHOOSE i \in hits : \A j \in hits : i <= j

\* createDefaultDecomposition: the template decomposition of a query.
\* numbers[0] is the first number of the query, "0.05" when it has none.
createDefaultDecomposition(query) ==
  LET c       == query.nCities
      first   == IF query.firstNum = NoNum THEN 5 ELSE query.firstNum
      cities  == [i \in 1..c |->
                    SubQuestion(i, SubQuestionText("population_of_city", i, NoNum, NoNum, NoNum),
                                "serpapi", <<>>)]
      add     == SubQuestion(c + 1, SubQuestionText("add_populations", c, NoNum, NoNum, NoNum),
                             "calculator", [i \in 1..c |-> i])
      mulAll  == SubQuestion(c + 2, SubQuestionText("multiply_combined_by", first, first, first, first),
                             "calculator", <<c + 1>>)
      mulOne  == SubQuestion(c + 1, SubQuestionText("multiply_population_by", first, first, first, first),
                             "calculator", <<1>>)
  IN  IF query.popMult
      THEN IF c > 1 THEN cities \o <<add, mulAll>>
           ELSE IF c = 1 THEN cities \o <<mulOne>>
           ELSE cities
      ELSE << SubQuestion(1, SubQuestionText("search_related", 0, query.firstNum, query.aggMult, query.pct),
                          "serpapi", <<>>),
              SubQuestion(2, SubQuestionText("perform_calculations", 0, NoNum, NoNum, NoNum),
                          "calculator", <<1>>) >>

\* ------------------------------------------------------------------------
\* What the language model may answer to the decomposition prompt.
\*   form "timeout"  : the race against the 10 s timer rejects (timer or model)
\*   form "critical" : building or running the chain throws outside the race
\*   form "json"     : JSON.parse succeeds; items is the subQuestions array
\*   form "prose"    : the same JSON surrounded by prose: JSON.parse fails and
\*                     the first "]" of the text closes the first dependsOn
\*   form "bare"     : objects without a dependsOn array
\*   form "garbage"  : no JSON and no id/question/toolType fields
\* An item is [id, toolType, dependsOn]; its question text is non-empty.
\* ------------------------------------------------------------------------
IdVariants   == {"canonical", "dup", "shift"}
ToolPatterns == {"allSerp", "lastCalc", "allCalc", "firstOther"}
DepChoices   == {"none", "prev", "next"}

ItemId(i, idv) ==
  IF idv = "dup" /\ i = 2 THEN 1
  ELSE IF idv = "shift" THEN i + 1
  ELSE i

ItemTool(i, n, tp) ==
  IF tp = "allCalc" THEN "calculator"
  ELSE IF tp = "lastCalc" /\ i = n THEN "calculator"
  ELSE IF tp = "firstCalc" /\ i = 1 THEN "calculator"
  ELSE IF tp = "lastMissing" /\ i = n THEN ""
  ELSE IF tp = "firstOther" /\ i = 1 THEN "sql"
  ELSE "serpapi"

\* "prev" of the first item is the item itself, "next" of the last item is
\* an id no item carries.
ItemDeps(i, n, idv, d) ==
  IF d = "none" THEN <<>>
  ELSE IF d = "prev" THEN (IF i > 1 THEN <<ItemId(i - 1, idv)>> ELSE <<ItemId(1, idv)>>)
  ELSE (IF i < n THEN <<ItemId(i + 1, idv)>> ELSE <<n + 2>>)

\* The question text of the i-th item of the model's answer.
ModelQuestion(i) == SubQuestionText("model", i, NoNum, NoNum, NoNum)

Items(n, idv, tp, dsel) ==
  [i \in 1..n |-> [id |-> ItemId(i, idv), question |-> ModelQuestion(i),
                   toolType |-> ItemTool(i, n, tp),
                   dependsOn |-> ItemDeps(i, n, idv, dsel[i])]]

\* The dependency choices of the items of an answer of n items: the same
\* choice for every item (no dependency; a chain that starts with a
\* self-dependency; a chain that ends with a dangling id), the same with an
\* independent first item, and a first item followed by a cycle.
DepPatterns(n) ==
  { [i \in 1..n |-> c] : c \in DepChoices }
  \cup { [i \in 1..n |-> IF i = 1 THEN "none" ELSE c] : c \in {"prev", "next"} }
  \cup { [i \in 1..n |-> IF i = 1 THEN "none" ELSE IF i = n THEN "prev" ELSE "next"] }

JsonAnswers(n) ==
  { [form |-> "json", items |-> Items(n, idv, tp, dsel)] :
      idv \in {"canonical", "dup"}, tp \in {"lastCalc", "firstOther"},
      dsel \in DepPatterns(n) }
  \cup { [form |-> "json",
          items |-> Items(n, "canonical", "firstCalc", [i \in 1..n |-> "none"])] }

ModelDecompositions ==
  { [form |-> f, items |-> <<>>] : f \in {"timeout", "critical", "garbage"} }
  \cup UNION { JsonAnswers(n) : n \in 1..MaxSubQ }
  \cup { [form |-> f, items |-> Items(n, idv, tp, [i \in 1..n |-> "none"])] :
           f \in {"prose", "bare"}, n \in 1..MaxSubQ, idv \in IdVariants,
           tp \in ToolPatterns }

\* Variant of strictParse whose validity filter accepts search items only.
strictParseSearchOnly(resp) ==
  IF resp.form = "json"
  THEN LET idx == { i \in 1..Len(resp.items) : resp.items[i].toolType = "serpapi" }
           pos(k) == CHOOSE i \in idx : Cardinality({ j \in idx : j < i }) = k - 1
       IN  [k \in 1..Cardinality(idx) |->
              SubQuestion(resp.items[pos(k)].id, resp.items[pos(k)].question,
                          resp.items[pos(k)].toolType, resp.items[pos(k)].dependsOn)]
  ELSE <<>>

\* Strict parse: the items that pass the validity filter, with completed and
\* result set anew.
strictParse(resp) ==
  IF resp.form = "json"
  THEN LET idx == { i \in 1..Len(resp.items) :
                      resp.items[i].toolType \in {"serpapi", "calculator"} }
           pos(k) == CHOOSE i \in idx : Cardinality({ j \in idx : j < i }) = k - 1
       IN  [k \in 1..Cardinality(idx) |->
              SubQuestion(resp.items[pos(k)].id, resp.items[pos(k)].question,
                          resp.items[pos(k)].toolType, resp.items[pos(k)].dependsOn)]
  ELSE <<>>

\* Regex extraction of the subQuestions array: the non-greedy match ends at
\* the first "]", so only objects without a dependsOn array are complete.
arrayExtraction(resp) ==
  IF resp.form = "bare"
  THEN LET idx == { i \in 1..Len(resp.items) : resp.items[i].toolType # "" }
           pos(k) == CHOOSE i \in idx : Cardinality({ j \in idx : j < i }) = k - 1
       IN  [k \in 1..Cardinality(idx) |->
              SubQuestion(resp.items[pos(k)].id, resp.items[pos(k)].question,
                          resp.items[pos(k)].toolType, <<>>)]
  ELSE <<>>

\* The number of matches of the toolType pattern: an item without a tool
\* type (toolType "") has none.
toolTypeMatches(resp) ==
  Cardinality({ i \in 1..Len(resp.items) : resp.items[i].toolType # "" })

\* Variant of parseDecomposition that tries the field-by-field extraction
\* before the extraction of the array.
parseDecompositionFieldFirst(resp, query) ==
  IF strictParse(resp) # <<>> THEN strictParse(resp)
  ELSE IF resp.form \in {"json", "prose", "bare"} /\ toolTypeMatches(resp) = Len(resp.items)
          /\ Len(resp.items) > 0
  THEN [i \in 1..Len(resp.items) |->
          SubQuestion(resp.items[i].id, resp.items[i].question,
                      IF resp.items[i].toolType = "calculator" THEN "calculator" ELSE "serpapi",
                      IF i > 1 THEN <<i - 1>> ELSE <<>>)]
  ELSE IF arrayExtraction(resp) # <<>> THEN arrayExtraction(resp)
  ELSE createDefaultDecomposition(query)

\* Field-by-field extraction: ids, questions and tool types are paired by
\* position when there are as many of each; the i-th (i > 1) sub-question
\* depends on "q<i-1>".
fieldExtraction(resp) ==
  IF resp.form \in {"json", "prose", "bare"} /\ toolTypeMatches(resp) = Len(resp.items)
  THEN [i \in 1..Len(resp.items) |->
          SubQuestion(resp.items[i].id, resp.items[i].question,
                      IF resp.items[i].toolType = "calculator" THEN "calculator" ELSE "serpapi",
                      IF i > 1 THEN <<i - 1>> ELSE <<>>)]
  ELSE <<>>

\* The tiers in the order decompositionNode applies them (the forms
\* "timeout" and "critical" never reach them).
parseDecomposition(resp, query) ==
  IF strictParse(resp) # <<>> THEN strictParse(resp)
  ELSE IF arrayExtraction(resp) # <<>> THEN arrayExtraction(resp)
  ELSE IF fieldExtraction(resp) # <<>> THEN fieldExtraction(resp)
  ELSE createDefaultDecomposition(query)

\* ------------------------------------------------------------------------
\* State
\* ------------------------------------------------------------------------
VARIABLES
  userQuery,             \* the query given to invoke
  serpApiTool,           \* TRUE iff a search tool is configured
  pc,                    \* the graph node about to run, "END" once the chain settled
  query,                 \* ToolSelectionState.query
  selectedTool,          \* ToolSelectionState.selectedTool ("null" for null)
  toolOutput,            \* ToolSelectionState.toolOutput
  finalResponse,         \* ToolSelectionState.finalResponse
  requiresDecomposition, \* ToolSelectionState.requiresDecomposition
  isMultishot,           \* ToolSelectionState.isMultishot
  subQuestions,          \* ToolSelectionState.subQuestions
  currentSubQuestion,    \* ToolSelectionState.currentSubQuestion
  intermediateResults,   \* ToolSelectionState.intermediateResults
  processingComplete,    \* ToolSelectionState.processingComplete
  result,                \* what invoke handed to its caller, NoResult before
  invoked,               \* history: the collaborators called so far
  executed,              \* history: question names of the sub-questions handed to a tool
  lastOutcome,           \* history: how the last tool node ended
  thrown,                \* history: what cut the chain short, "none" if nothing
  handedOver,            \* history: how resultsCollectorNode decided its last hand-over
  analyzed,              \* history: what the analyzer's model call answered
  decomposedBy,          \* history: the path decompositionNode took, "none" before
  expiry,                \* history: "no" until the global timer ran out, then
                         \* "inflight" until a node of the chain ends, then "later"
  answer,                \* what createToolSelectionWorkflow's invoke returned, NoAnswer before
  dpc,                   \* position in executeMultishotWorkflow, "idle" when it does not run
  locationResults,       \* executeMultishotWorkflow: locationResults
  calculationResult,     \* executeMultishotWorkflow: calculationResult (NoNum for null)
  now,                   \* time since the wrapper's invoke was called, in TimeUnit
  since,                 \* the time the call in progress was started
  expression,            \* calculatorNode: expression, a sequence of tokens
  sanitizedExpression,   \* calculatorNode: sanitizedExpression
  priorResults,          \* resolveCalculatorDependencies: its argument intermediateResults
  cpc,                   \* position in calculatorNode's expression handling, "idle" when not followed
  extracted,             \* extractNumericValue: a result and what successive calls return
  roundTrip,             \* a sub-question list, its JSON text and what the parser makes of it
  other                  \* a second run on the same workflow object, waiting at an await

stateVars == <<query, selectedTool, toolOutput, finalResponse, requiresDecomposition,
               isMultishot, subQuestions, currentSubQuestion, intermediateResults,
               processingComplete>>
histVars  == <<invoked, executed, lastOutcome, thrown, handedOver, analyzed,
               decomposedBy, expiry>>
graphVars == <<userQuery, serpApiTool, pc, stateVars, result, histVars>>
directVars == <<dpc, locationResults, calculationResult>>
timeVars  == <<now, since>>
calcVars  == <<expression, sanitizedExpression, priorResults, cpc, extracted, roundTrip>>
vars      == <<graphVars, answer, directVars, timeVars, calcVars, other>>

NoSubQ   == [id |-> 0]
NoResult == [status |-> "none"]
NoAnswer == Text("pending", TRUE, {}, NoNum, 0)

\* The analyzer's model call: asked tells that it was made, threw that it
\* threw, labels the labels its answer contains, in lower case.
Analyzed(wasAsked, hasThrown, found) ==
  [asked |-> wasAsked, threw |-> hasThrown, labels |-> found]

NotAnalyzed == Analyzed(FALSE, FALSE, {})

ToolNodes == {"executeCalculator", "executeSerpApi", "executeRag"}
GraphNodes == {"analyzeQuery", "routeToTool", "decomposeQuery", "routeSubQuestion",
               "collectResults", "aggregateResults"} \cup ToolNodes

\* initialState of invoke; the chain starts at the node at.
StartOn(at, queries) ==
  /\ userQuery \in queries
  /\ serpApiTool \in BOOLEAN
  /\ pc = at
  /\ query = userQuery
  /\ selectedTool = "null"
  /\ toolOutput = NULL
  /\ finalResponse = NULL
  /\ requiresDecomposition = FALSE
  /\ isMultishot = FALSE
  /\ subQuestions = <<>>
  /\ currentSubQuestion = NoSubQ
  /\ intermediateResults = <<>>
  /\ processingComplete = FALSE
  /\ result = NoResult
  /\ invoked = {}
  /\ executed = <<>>
  /\ lastOutcome = "none"
  /\ thrown = "none"
  /\ handedOver = "none"
  /\ analyzed = NotAnalyzed
  /\ decomposedBy = "none"
  /\ expiry = "no"
  /\ answer = NoAnswer
  /\ dpc = "idle"
  /\ locationResults = <<>>
  /\ calculationResult = NoNum
  /\ now = 0
  /\ since = 0

\* The expression handling of calculatorNode is not followed step by step.
NoExpression ==
  /\ expression = <<>>
  /\ sanitizedExpression = <<>>
  /\ priorResults = <<>>
  /\ cpc = "idle"
  /\ extracted = <<>>
  /\ roundTrip = [stage |-> "idle"]

\* No second run.
NoRun == [pc |-> "none"]

StartGraph(at) == StartOn(at, Queries)

Start(at) == StartGraph(at) /\ NoExpression /\ other = NoRun

\* The graph workflow called on its own.
Init == Start("analyzeQuery")

\* ------------------------------------------------------------------------
\* executeSafely's catch: the state the wrapper reads after the chain threw.
\* It is built from initialState, whose subQuestions and intermediateResults
\* are the empty ones invoke created.
\* ------------------------------------------------------------------------
executeSafelyResponse(kind) ==
  IF kind = "InvalidUpdateError" THEN Fixed("system_error")
  ELSE IF kind = "GraphRecursionError" THEN Fixed("partial_results_none_available")
  ELSE Fixed("error_while_processing")

executeSafelyCatch(kind) ==
  /\ pc' = "END"
  /\ query' = userQuery
  /\ selectedTool' = "null"
  /\ toolOutput' = Fixed("execution_terminated")
  /\ finalResponse' = executeSafelyResponse(kind)
  /\ requiresDecomposition' = FALSE
  /\ isMultishot' = FALSE
  /\ subQuestions' = <<>>
  /\ currentSubQuestion' = NoSubQ
  /\ intermediateResults' = <<>>
  /\ processingComplete' = TRUE
  /\ thrown' = kind

\* ------------------------------------------------------------------------
\* 1. queryAnalysisNode and the conditional edge after analyzeQuery
\* ------------------------------------------------------------------------
\* A node of the chain ends.  The chain is not cancelled when the global
\* timer runs out: the node in progress ends and the chain goes on.
chainStep == expiry' = (IF expiry = "inflight" THEN "later" ELSE expiry)

\* The labels the analyzer's answer contains, in lower case: none, one of
\* them, the two tool labels, or all three.
AnalyzerAnswers ==
  { {}, {"multishot"}, {"calculator"}, {"serpapi"}, {"calculator", "serpapi"},
    {"multishot", "calculator", "serpapi"} }

\* Variant of analyzerSelection that accepts the label serpapi without a
\* search tool.
analyzerSelectionAnyTool(labels) ==
  IF "multishot" \in labels THEN "decompose"
  ELSE IF "calculator" \in labels THEN "calculator"
  ELSE IF "serpapi" \in labels THEN "serpapi"
  ELSE "rag"

analyzerSelection(labels) ==
  IF "multishot" \in labels THEN "decompose"
  ELSE IF "calculator" \in labels THEN "calculator"
  ELSE IF "serpapi" \in labels /\ serpApiTool THEN "serpapi"
  ELSE "rag"

\* Variant of patternSelection that tests the search patterns first.
patternSelectionSearchFirst(q) ==
  IF serpApiTool /\ q.serp THEN "serpapi"
  ELSE IF q.calc THEN "calculator"
  ELSE "model"

\* The single-tool pattern analysis: the calculator patterns, then the search
\* patterns when a search tool is configured; "model" when none matches.
patternSelection(q) ==
  IF q.calc THEN "calculator"
  ELSE IF serpApiTool /\ q.serp THEN "serpapi"
  ELSE "model"

queryAnalysisNode ==
  /\ pc = "analyzeQuery"
  /\ UNCHANGED <<userQuery, serpApiTool, result, executed, lastOutcome, handedOver,
                 decomposedBy>>
  /\ chainStep
  /\ IF userQuery.multishot /\ serpApiTool
     THEN /\ requiresDecomposition' = TRUE
          /\ pc' = "decomposeQuery"
          /\ UNCHANGED <<query, selectedTool, toolOutput, finalResponse, isMultishot,
                         subQuestions, currentSubQuestion, intermediateResults,
                         processingComplete, invoked, thrown, analyzed>>
     ELSE IF patternSelection(userQuery) # "model"
     THEN /\ selectedTool' = patternSelection(userQuery)
          /\ requiresDecomposition' = FALSE
          /\ pc' = "routeToTool"
          /\ UNCHANGED <<query, toolOutput, finalResponse, isMultishot, subQuestions,
                         currentSubQuestion, intermediateResults, processingComplete,
                         invoked, thrown, analyzed>>
     ELSE /\ invoked' = invoked \cup {"model"}
          /\ \/ \E labels \in AnalyzerAnswers :
                  LET sel == analyzerSelection(labels)
                  IN  /\ requiresDecomposition' = (sel = "decompose")
                      /\ selectedTool' = (IF sel = "decompose" THEN selectedTool ELSE sel)
                      /\ pc' = (IF sel = "decompose" THEN "decomposeQuery" ELSE "routeToTool")
                      /\ analyzed' = Analyzed(TRUE, FALSE, labels)
                      /\ UNCHANGED <<query, toolOutput, finalResponse, isMultishot,
                                     subQuestions, currentSubQuestion, intermediateResults,
                                     processingComplete, thrown>>
             \/ /\ executeSafelyCatch("Error")
                /\ analyzed' = Analyzed(TRUE, TRUE, {})

\* routeToToolNode and its conditional edge.
routeToToolNode ==
  /\ pc = "routeToTool"
  /\ pc' = (IF selectedTool = "calculator" THEN "executeCalculator"
            ELSE IF selectedTool = "serpapi" THEN "executeSerpApi"
            ELSE "executeRag")
  /\ chainStep
  /\ UNCHANGED <<userQuery, serpApiTool, stateVars, result, invoked, executed,
                 lastOutcome, thrown, handedOver, analyzed, decomposedBy>>

\* ------------------------------------------------------------------------
\* Tool nodes.  Each ends with the conditional edge on isMultishot.
\* ------------------------------------------------------------------------
curId == IF currentSubQuestion = NoSubQ THEN 0 ELSE currentSubQuestion.id

For(t) == [t EXCEPT !.of = curId]

\* Bookkeeping common to the three tool nodes.
toolNodeDone(outcome, called) ==
  /\ pc' = (IF isMultishot THEN "collectResults" ELSE "END")
  /\ lastOutcome' = outcome
  /\ invoked' = invoked \cup called
  /\ executed' = (IF isMultishot /\ currentSubQuestion # NoSubQ
                  THEN Append(executed, currentSubQuestion.question.name)
                  ELSE executed)
  /\ chainStep
  /\ UNCHANGED <<userQuery, serpApiTool, result, thrown, handedOver, analyzed,
                 decomposedBy, query, requiresDecomposition, isMultishot, subQuestions, currentSubQuestion,
                 intermediateResults, processingComplete>>

\* What calculatorTool.invoke may return.
CalculatorAnswers ==
  { Text("calculator", FALSE, {}, 7, 0),
    Text("calculator", FALSE, {"error"}, NoNum, 0),
    Text("calculator", FALSE, {"dontknow"}, NoNum, 0) }

\* What safeEvaluateExpression may return.
JsResults == { Text("js", FALSE, {}, 7, 0), Text("js", FALSE, {"Error"}, NoNum, 0) }

\* What serpApiTool.invoke may return, as the string safeSearchResult.
SearchAnswers == { Text("search", FALSE, {}, n, 0) : n \in {NoNum, 100} }

\* What ragChain.invoke may return.
RagAnswers == { Text("rag", TRUE, {}, NoNum, 0), Text("rag", FALSE, {}, NoNum, 0) }

\* The catch block of calculatorNode.
calculatorCatch ==
  IF isMultishot
  THEN /\ toolOutput' = For(Text("calculator_error_multishot", FALSE, {"Error"}, NoNum, 0))
       /\ UNCHANGED <<selectedTool, finalResponse>>
  ELSE /\ selectedTool' = "rag"
       /\ toolOutput' = Text("calculator_error", FALSE, {"Error"}, NoNum, 0)
       /\ UNCHANGED finalResponse

\* 2. calculatorNode
calculatorNode ==
  /\ pc = "executeCalculator"
  /\ \/ \E why \in {"model_throws", "no_expression"} :
          /\ calculatorCatch
          /\ toolNodeDone(why, {"model"})
     \/ /\ calculatorCatch
        /\ toolNodeDone("tool_throws", {"model", "calculator"})
     \/ \E r \in CalculatorAnswers, js \in JsResults :
          LET failed == r.marks \cap {"dontknow", "error", "invalid"} # {}
              jsOk   == js.marks \cap {"Error", "invalid"} = {}
          IN  IF failed /\ jsOk
              THEN /\ toolOutput' = For(js)
                   /\ finalResponse' = Text("result_of_calculation", FALSE, {}, js.num, 0)
                   /\ UNCHANGED selectedTool
                   /\ toolNodeDone("js_fallback", {"model", "calculator"})
              ELSE \/ \E m \in ModelTexts :
                        /\ toolOutput' = For(r)
                        /\ finalResponse' = m
                        /\ UNCHANGED selectedTool
                        /\ toolNodeDone(IF failed THEN "error_text" ELSE "ok",
                                        {"model", "calculator"})
                   \/ /\ calculatorCatch
                      /\ toolNodeDone("format_throws", {"model", "calculator"})

\* Variant of serpApiCatch that leaves toolOutput as the previous node set it.
serpApiCatchKeepsOutput ==
  /\ selectedTool' = "rag"
  /\ UNCHANGED <<toolOutput, finalResponse>>

\* The outer catch block of serpApiNode.
serpApiCatch ==
  /\ selectedTool' = "rag"
  /\ toolOutput' = For(Text("serpapi_error", FALSE, {"Error"}, NoNum, 0))
  /\ UNCHANGED finalResponse

\* 3. serpApiNode
serpApiNode ==
  /\ pc = "executeSerpApi"
  /\ IF ~serpApiTool
     THEN /\ selectedTool' = "rag"
          /\ UNCHANGED <<toolOutput, finalResponse>>
          /\ toolNodeDone("no_tool", {})
     ELSE \/ /\ serpApiCatch
             /\ toolNodeDone("model_throws", {"model"})
          \/ /\ serpApiCatch
             /\ toolNodeDone("tool_throws", {"model", "serpapi"})
          \/ \E s \in SearchAnswers,
                m \in ModelTexts \cup {Fixed("found_some_information")} :
               /\ toolOutput' = For(s)
               /\ finalResponse' = m
               /\ UNCHANGED selectedTool
               /\ toolNodeDone("ok", {"model", "serpapi"})

\* 4. ragNode
ragNode ==
  /\ pc = "executeRag"
  /\ UNCHANGED selectedTool
  /\ \/ \E a \in RagAnswers :
          /\ toolOutput' = Fixed("used_rag_chain")
          /\ finalResponse' = a
          /\ toolNodeDone("ok", {"rag"})
     \/ /\ toolOutput' = For(Text("rag_error", FALSE, {"Error"}, NoNum, 0))
        /\ finalResponse' = Fixed("apology")
        /\ toolNodeDone("tool_throws", {"rag"})

\* ------------------------------------------------------------------------
\* 5. decompositionNode and the edge decomposeQuery -> routeSubQuestion
\* ------------------------------------------------------------------------
IndexOfId(subs, d) == FindIndex({ i \in 1..Len(subs) : subs[i].id = d })

\* Variant of Eligible that does not look at completed.
EligibleAgain(sq, subs) ==
  \/ Len(sq.dependsOn) = 0
  \/ \A d \in Range(sq.dependsOn) :
       IndexOfId(subs, d) # 0 /\ subs[IndexOfId(subs, d)].completed

\* Variant of Eligible that does not look at dependsOn.
EligibleUnordered(sq, subs) == ~sq.completed

\* The test both decompositionNode and resultsCollectorNode use to pick the
\* next sub-question.
Eligible(sq, subs) ==
  /\ ~sq.completed
  /\ \/ Len(sq.dependsOn) = 0
     \/ \A d \in Range(sq.dependsOn) :
          IndexOfId(subs, d) # 0 /\ subs[IndexOfId(subs, d)].completed

NextEligible(subs) == FindIndex({ i \in 1..Len(subs) : Eligible(subs[i], subs) })

\* The emergency decomposition of the outer catch block.
emergencyDecomposition(q) ==
  << SubQuestion(1, q, "serpapi", <<>>) >>
  \o (IF q.arith
      THEN << SubQuestion(2, SubQuestionText("perform_calculation_previous_step", 0, NoNum, NoNum, NoNum),
                          "calculator", <<1>>) >>
      ELSE <<>>)

\* The sub-question list and the first current sub-question for an answer.
decompose(resp, q) ==
  IF resp.form = "timeout"
  THEN LET subs == createDefaultDecomposition(q)
           k    == FindIndex({ i \in 1..Len(subs) : Len(subs[i].dependsOn) = 0 })
       IN  [subs |-> subs, cur |-> IF k = 0 THEN NoSubQ ELSE subs[k]]
  ELSE IF resp.form = "critical"
  THEN [subs |-> emergencyDecomposition(q), cur |-> emergencyDecomposition(q)[1]]
  ELSE LET parsed == parseDecomposition(resp, q)
           k      == NextEligible(parsed)
           subs   == IF k = 0 /\ Len(parsed) > 0
                     THEN [parsed EXCEPT ![1].dependsOn = <<>>]
                     ELSE parsed
       IN  [subs |-> subs,
            cur  |-> IF k # 0 THEN subs[k]
                     ELSE IF Len(subs) > 0 THEN subs[1] ELSE NoSubQ]

\* The path decompositionNode takes on an answer: the catch of the race
\* ("timeout"), the outer catch ("critical"), one of the three parsing tiers
\* ("parsed") or the template after all of them failed ("template").
decompositionPath(resp) ==
  IF resp.form \in {"timeout", "critical"} THEN resp.form
  ELSE IF strictParse(resp) = <<>> /\ arrayExtraction(resp) = <<>>
          /\ fieldExtraction(resp) = <<>>
  THEN "template"
  ELSE "parsed"

\* decompositionNode when the race of the model against TIMEOUT_MS ended
\* as resp tells.
decompositionStep(resp) ==
  /\ pc = "decomposeQuery"
  /\ subQuestions' = decompose(resp, query).subs
  /\ currentSubQuestion' = decompose(resp, query).cur
  /\ invoked' = (IF resp.form = "critical" THEN invoked ELSE invoked \cup {"model"})
  /\ isMultishot' = TRUE
  /\ intermediateResults' = <<>>
  /\ processingComplete' = FALSE
  /\ pc' = "routeSubQuestion"
  /\ decomposedBy' = decompositionPath(resp)
  /\ chainStep
  /\ UNCHANGED <<userQuery, serpApiTool, query, selectedTool, toolOutput, finalResponse,
                 requiresDecomposition, result, executed, lastOutcome, thrown, handedOver,
                 analyzed>>

decompositionNode == \E resp \in ModelDecompositions : decompositionStep(resp)

\* ------------------------------------------------------------------------
\* 6. subQuestionRouterNode and the conditional edges after routeSubQuestion.
\* The emergency edge ("terminate" when there is no current sub-question and
\* some sub-question is completed) and the normal edge ("end" when there is
\* no current sub-question) both lead to aggregateResults; the emergency
\* edge's "continue" is replaced by the normal edge, as its comment says.
\* A tool type with no entry in the edge map makes the runtime throw.
\* ------------------------------------------------------------------------
subQuestionRouterNode ==
  /\ pc = "routeSubQuestion"
  /\ chainStep
  /\ UNCHANGED <<userQuery, serpApiTool, result, invoked, executed, lastOutcome, handedOver,
                 analyzed, decomposedBy>>
  /\ IF currentSubQuestion = NoSubQ
     THEN /\ selectedTool' = "rag"
          /\ processingComplete' = TRUE
          /\ pc' = "aggregateResults"
          /\ UNCHANGED <<query, toolOutput, finalResponse, requiresDecomposition, isMultishot,
                         subQuestions, currentSubQuestion, intermediateResults, thrown>>
     ELSE IF currentSubQuestion.toolType \in {"calculator", "serpapi", "rag"}
     THEN /\ query' = currentSubQuestion.question
          /\ selectedTool' = currentSubQuestion.toolType
          /\ pc' = (IF currentSubQuestion.toolType = "calculator" THEN "executeCalculator"
                    ELSE IF currentSubQuestion.toolType = "serpapi" THEN "executeSerpApi"
                    ELSE "executeRag")
          /\ UNCHANGED <<toolOutput, finalResponse, requiresDecomposition, isMultishot,
                         subQuestions, currentSubQuestion, intermediateResults,
                         processingComplete, thrown>>
     ELSE executeSafelyCatch("unroutable")

\* ------------------------------------------------------------------------
\* 7. resultsCollectorNode and the conditional edge after collectResults
\* ------------------------------------------------------------------------
StepCeiling == 20

CompletedCount(subs) == Cardinality({ i \in 1..Len(subs) : subs[i].completed })

Store(results, id, text) ==
  [i \in (DOMAIN results) \cup {id} |-> IF i = id THEN text ELSE results[i]]

\* The emergency termination check of the collector.
forceTermination(subs) ==
  CompletedCount(subs) > 0 /\ CompletedCount(subs) >= Len(subs) \div 2

\* The conditional edge: "complete" leads to aggregateResults.
collectEdge(subs, complete) ==
  IF CompletedCount(subs) > StepCeiling \/ complete
  THEN "aggregateResults" ELSE "routeSubQuestion"

resultsCollectorNode ==
  /\ pc = "collectResults"
  /\ chainStep
  /\ UNCHANGED <<userQuery, serpApiTool, result, invoked, executed, lastOutcome, thrown,
                 analyzed, decomposedBy, query, selectedTool, toolOutput, finalResponse, requiresDecomposition,
                 isMultishot>>
  /\ IF currentSubQuestion = NoSubQ
     THEN /\ processingComplete' = TRUE
          /\ handedOver' = "no_current"
          /\ pc' = collectEdge(subQuestions, TRUE)
          /\ UNCHANGED <<subQuestions, currentSubQuestion, intermediateResults>>
     ELSE LET resultToStore == IF toolOutput.k = "null" THEN Fixed("no_result_available")
                               ELSE toolOutput
              updatedResults == Store(intermediateResults, currentSubQuestion.id, resultToStore)
              updatedSubQuestions ==
                [i \in 1..Len(subQuestions) |->
                   IF subQuestions[i].id = currentSubQuestion.id
                   THEN [subQuestions[i] EXCEPT !.completed = TRUE, !.result = resultToStore]
                   ELSE subQuestions[i]]
              allCompleted == \A i \in 1..Len(updatedSubQuestions) :
                                 updatedSubQuestions[i].completed
              k == NextEligible(updatedSubQuestions)
          IN  /\ subQuestions' = updatedSubQuestions
              /\ intermediateResults' = updatedResults
              /\ IF allCompleted \/ forceTermination(updatedSubQuestions)
                 THEN /\ processingComplete' = TRUE
                      /\ currentSubQuestion' = NoSubQ
                      /\ handedOver' = (IF allCompleted THEN "all" ELSE "forced")
                      /\ pc' = collectEdge(updatedSubQuestions, TRUE)
                 ELSE /\ currentSubQuestion' = (IF k = 0 THEN NoSubQ ELSE updatedSubQuestions[k])
                      /\ processingComplete' = (k = 0)
                      /\ handedOver' = (IF k = 0 THEN "none_eligible"
                                        ELSE IF CompletedCount(updatedSubQuestions) > StepCeiling
                                        THEN "ceiling" ELSE "continue")
                      /\ pc' = collectEdge(updatedSubQuestions, k = 0)

\* ------------------------------------------------------------------------
\* 8. aggregationNode and the edge aggregateResults -> END
\* ------------------------------------------------------------------------
Sum(f, S) ==
  LET RECURSIVE acc(_)
      acc(T) == IF T = {} THEN 0
                ELSE LET x == CHOOSE y \in T : TRUE IN f[x] + acc(T \ {x})
  IN  acc(S)

\* Some calculator sub-question has no result or an error-looking result.
calculatorFailed(subs) ==
  /\ Len(subs) > 0
  /\ \E i \in 1..Len(subs) :
       /\ subs[i].toolType = "calculator"
       /\ \/ Falsy(subs[i].result)
          \/ subs[i].result.marks \cap {"Error", "dontknow"} # {}

\* The search sub-questions from whose result a value is extracted.
populationResults(subs) ==
  { i \in 1..Len(subs) :
      subs[i].toolType = "serpapi" /\ ~Falsy(subs[i].result) /\ subs[i].result.num # NoNum }

\* The value the manual aggregation states, in hundredths: the sum of the
\* extracted values, times the multiplier multiplyMatch finds in state.query.
manualValue(subs, q) ==
  LET total == Sum([i \in 1..Len(subs) |-> subs[i].result.num], populationResults(subs))
  IN  IF q.aggMult # NoNum THEN total * q.aggMult ELSE total * 100

allMarkedCompleted(subs) == [i \in 1..Len(subs) |-> [subs[i] EXCEPT !.completed = TRUE]]

\* Variant of aggregationNode without the catch block of the standard
\* aggregation: a failed model call ends the chain in executeSafely's catch.
aggregationNodeNoCatch ==
  /\ pc = "aggregateResults"
  /\ chainStep
  /\ UNCHANGED <<userQuery, serpApiTool, result, executed, lastOutcome, handedOver,
                 analyzed, decomposedBy>>
  /\ IF calculatorFailed(subQuestions) /\ Cardinality(populationResults(subQuestions)) >= 2
     THEN /\ finalResponse' = Text("manual_aggregation", FALSE, {},
                                   manualValue(subQuestions, query), 0)
          /\ subQuestions' = allMarkedCompleted(subQuestions)
          /\ pc' = "END"
          /\ processingComplete' = TRUE
          /\ UNCHANGED <<invoked, thrown, query, selectedTool, toolOutput,
                         requiresDecomposition, isMultishot, currentSubQuestion,
                         intermediateResults>>
     ELSE /\ invoked' = invoked \cup {"model"}
          /\ \/ \E m \in ModelTexts :
                  /\ finalResponse' = m
                  /\ subQuestions' = allMarkedCompleted(subQuestions)
                  /\ pc' = "END"
                  /\ processingComplete' = TRUE
                  /\ UNCHANGED <<thrown, query, selectedTool, toolOutput,
                                 requiresDecomposition, isMultishot, currentSubQuestion,
                                 intermediateResults>>
             \/ executeSafelyCatch("Error")

aggregationNode ==
  /\ pc = "aggregateResults"
  /\ pc' = "END"
  /\ processingComplete' = TRUE
  /\ chainStep
  /\ UNCHANGED <<userQuery, serpApiTool, result, executed, lastOutcome, thrown, handedOver,
                 analyzed, decomposedBy, query, selectedTool, toolOutput, requiresDecomposition, isMultishot,
                 currentSubQuestion, intermediateResults>>
  /\ IF calculatorFailed(subQuestions) /\ Cardinality(populationResults(subQuestions)) >= 2
     THEN /\ finalResponse' = Text("manual_aggregation", FALSE, {},
                                   manualValue(subQuestions, query), 0)
          /\ subQuestions' = allMarkedCompleted(subQuestions)
          /\ UNCHANGED invoked
     ELSE /\ invoked' = invoked \cup {"model"}
          /\ \/ \E m \in ModelTexts :
                  /\ finalResponse' = m
                  /\ subQuestions' = allMarkedCompleted(subQuestions)
             \/ /\ finalResponse' = Fixed("aggregation_fallback")
                /\ UNCHANGED subQuestions

\* ------------------------------------------------------------------------
\* The graph runtime throws while the chain runs (InvalidUpdateError on a
\* state update, GraphRecursionError on the recursion limit).
\* ------------------------------------------------------------------------
graphRuntimeThrows ==
  /\ pc \in GraphNodes
  /\ \E kind \in {"InvalidUpdateError", "GraphRecursionError"} : executeSafelyCatch(kind)
  /\ chainStep
  /\ UNCHANGED <<userQuery, serpApiTool, result, invoked, executed, lastOutcome, handedOver,
                 analyzed, decomposedBy>>

\* ------------------------------------------------------------------------
\* The wrapper returned by createToolSelectionGraph: invoke
\* ------------------------------------------------------------------------
Returned(resp, tool, multi, subs, how) ==
  [status |-> "returned", response |-> resp, toolUsed |-> tool, isMultishot |-> multi,
   subQuestions |-> subs, via |-> how]

\* Variant of invokeCatch that rethrows: the promise of invoke rejects.
invokeCatchRethrows ==
  [status |-> "rejected", response |-> NULL, toolUsed |-> "error", isMultishot |-> FALSE,
   subQuestions |-> <<>>, via |-> "catch"]

\* The outer catch block of invoke.
invokeCatch == Returned(Fixed("issue_while_processing"), "error", FALSE, <<>>, "catch")

\* The sub-questions the emergency response lists.
completedQuestions(subs) ==
  { i \in 1..Len(subs) : subs[i].completed /\ ~Falsy(subs[i].result) }

\* The emergency response built when a multishot run left no finalResponse.
\* num is the value it states, in hundredths (NoNum when it states none).
emergencyResponse(subs, q) ==
  LET done   == completedQuestions(subs)
      values == { i \in done : subs[i].result.num # NoNum /\ subs[i].result.num # 0 }
      total  == Sum([i \in 1..Len(subs) |-> subs[i].result.num], values)
      factor == IF q.pct = NoNum THEN 100
                ELSE IF q.pct < 100 THEN q.pct ELSE q.pct \div 100
  IN  IF q.isPop /\ Cardinality(done) >= 2 /\ Cardinality(values) >= 2
      THEN Text("emergency_population", FALSE, {}, total * factor, 0)
      ELSE Text("emergency_gathered", FALSE, {}, NoNum, 0)

\* The response text of the object invoke returns on its normal path.
responseOf(final, multi, subs, q) ==
  LET patched == IF Falsy(final) /\ multi /\ Len(subs) > 0
                 THEN emergencyResponse(subs, q) ELSE final
  IN  IF Falsy(patched) THEN Fixed("couldnt_process") ELSE patched

\* The chain settled first: the rest of invoke's try block.
invokeReturn ==
  /\ pc = "END"
  /\ result = NoResult
  /\ result' = Returned(responseOf(finalResponse, isMultishot, subQuestions, query),
                        IF isMultishot THEN "multishot" ELSE selectedTool,
                        isMultishot,
                        IF isMultishot THEN subQuestions ELSE <<>>,
                        "return")
  /\ UNCHANGED <<userQuery, serpApiTool, pc, stateVars, histVars>>

\* The global timer wins the race: invoke returns from its catch block while
\* the chain goes on running.
globalTimeout ==
  /\ pc \in GraphNodes
  /\ result = NoResult
  /\ result' = invokeCatch
  /\ expiry' = "inflight"
  /\ UNCHANGED <<userQuery, serpApiTool, pc, stateVars, invoked, executed, lastOutcome,
                 thrown, handedOver, analyzed, decomposedBy>>

\* ------------------------------------------------------------------------
\* Specification of the graph workflow
\* ------------------------------------------------------------------------
\* A step of the graph workflow with time left out: the global timer may
\* win the race at any moment.
Untimed(step) == step /\ UNCHANGED <<answer, directVars, timeVars, calcVars, other>>

Next ==
  \/ Untimed(queryAnalysisNode)
  \/ Untimed(routeToToolNode)
  \/ Untimed(calculatorNode)
  \/ Untimed(serpApiNode)
  \/ Untimed(ragNode)
  \/ Untimed(decompositionNode)
  \/ Untimed(subQuestionRouterNode)
  \/ Untimed(resultsCollectorNode)
  \/ Untimed(aggregationNode)
  \/ Untimed(graphRuntimeThrows)
  \/ Untimed(invokeReturn)
  \/ Untimed(globalTimeout)

Spec == Init /\ [][Next]_vars

\* The initial state of a run on a query the analyzer decides by asking the
\* model, with a search tool configured.
InitPlain == Init /\ userQuery = QPlain /\ serpApiTool = TRUE

\* Every external call returns or throws and the event loop runs every
\* continuation that is ready: some step of the run is always taken.
FairSpec == InitPlain /\ [][Next]_vars /\ WF_vars(Next)

\* ------------------------------------------------------------------------
\* executeMultishotWorkflow: the direct multishot workflow
\* ------------------------------------------------------------------------
\* The string the workflow returns early or at its end.
directReturn(text) ==
  /\ answer' = text
  /\ dpc' = "done"

\* Step 1: the plan.  No location in the query ends the workflow.
multishotPlan ==
  /\ dpc = "plan"
  /\ IF userQuery.nLoc = 0
     THEN directReturn(Fixed("no_locations"))
     ELSE /\ dpc' = "search"
          /\ UNCHANGED answer
  /\ UNCHANGED <<locationResults, calculationResult>>

LocationResult(pop, text) == [population |-> pop, result |-> text]

\* What one pass of the search loop may push to locationResults: the
\* population read from the JSON answer, the model's extraction (with or
\* without a number in it), or the text left by a failed extraction.
LocationAnswers ==
  { LocationResult(100, Fixed("population_of_location")),
    LocationResult(100, Text("model", FALSE, {}, 100, 0)),
    LocationResult(NoNum, Text("model", FALSE, {}, NoNum, 0)),
    LocationResult(NoNum, Fixed("error_extracting_data")) }

\* Step 2: one pass of the search loop.  serpApiTool.invoke is awaited as it
\* is; when it throws, the workflow returns the error sentence.
multishotSearch ==
  /\ dpc = "search"
  /\ UNCHANGED calculationResult
  /\ \/ /\ directReturn(Text("error_while_searching", FALSE, {"error"}, NoNum, 0))
        /\ UNCHANGED locationResults
     \/ \E r \in LocationAnswers :
          /\ locationResults' = Append(locationResults, r)
          /\ dpc' = (IF Len(locationResults) + 1 < userQuery.nLoc THEN "search"
                     ELSE IF userQuery.hasAdd \/ userQuery.hasMul THEN "calculate"
                     ELSE "respond")
          /\ UNCHANGED answer

\* The multiplier of the plan, in hundredths.
multiplier(q) ==
  IF (q.hasMul \/ q.hasPct) /\ q.firstNum # NoNum
  THEN IF q.hasPct /\ q.firstNum > 100 THEN q.firstNum \div 100 ELSE q.firstNum
  ELSE 5

populationValues(results) ==
  { i \in 1..Len(results) : results[i].population # NoNum }

\* Step 3: the direct calculation of the catch blocks, in hundredths.
calculation(results, q) ==
  LET values == populationValues(results)
      total  == Sum([i \in 1..Len(results) |-> results[i].population], values)
      first  == results[CHOOSE i \in values : \A j \in values : i <= j].population
  IN  IF q.hasAdd
      THEN IF q.hasMul THEN total * multiplier(q) ELSE total * 100
      ELSE first * multiplier(q)

\* How one race of calculatorTool.invoke against its 5 s timer ends: the
\* calculator answers with the number, answers with a text parseFloat makes
\* NaN of, throws, or the timer rejects first.
CalculatorOutcomes == {"number", "text", "throws", "timeout"}

\* parseFloat of the answer of a race on an expression of the given value,
\* NoNum when there is no number to go on with.
calculatorResult(value, outcome) == IF outcome = "number" THEN value ELSE NoNum

\* Variant of calculationWith whose catch blocks give up: the result is 0, as
\* after the outer catch.
calculationWithoutFallback(results, q, o1, o2) ==
  LET values == populationValues(results)
      total  == Sum([i \in 1..Len(results) |-> results[i].population], values)
      first  == results[CHOOSE i \in values : \A j \in values : i <= j].population
      sum    == calculatorResult(total, o1)
  IN  IF q.hasAdd
      THEN IF sum = NoNum THEN 0
           ELSE IF q.hasMul
           THEN LET product == calculatorResult(sum * multiplier(q), o2)
                IN  IF product = NoNum THEN 0 ELSE product
           ELSE sum * 100
      ELSE LET product == calculatorResult(first * multiplier(q), o1)
           IN  IF product = NoNum THEN 0 ELSE product

\* Step 3 with the calculator: o1 is how the first race ends, o2 how the
\* multiplication after an addition ends.  A race that yields no number
\* leads to the catch block, which computes directly.
calculationWith(results, q, o1, o2) ==
  LET values == populationValues(results)
      total  == Sum([i \in 1..Len(results) |-> results[i].population], values)
      first  == results[CHOOSE i \in values : \A j \in values : i <= j].population
      sum    == calculatorResult(total, o1)
  IN  IF q.hasAdd
      THEN IF sum = NoNum THEN calculation(results, q)
           ELSE IF q.hasMul
           THEN LET product == calculatorResult(sum * multiplier(q), o2)
                IN  IF product = NoNum THEN calculation(results, q) ELSE product
           ELSE sum * 100
      ELSE LET product == calculatorResult(first * multiplier(q), o1)
           IN  IF product = NoNum THEN calculation(results, q) ELSE product

multishotCalculate ==
  /\ dpc = "calculate"
  /\ UNCHANGED locationResults
  /\ IF populationValues(locationResults) = {}
     THEN /\ directReturn(Fixed("couldnt_extract_population"))
          /\ UNCHANGED calculationResult
     ELSE /\ \E o1, o2 \in CalculatorOutcomes :
               calculationResult' = calculationWith(locationResults, userQuery, o1, o2)
          /\ dpc' = "respond"
          /\ UNCHANGED answer

\* Step 4: the final response: the model's text, or fallbackResponse when
\* the model throws, loses the race against its timer or answers nothing.
multishotRespond ==
  /\ dpc = "respond"
  /\ UNCHANGED <<locationResults, calculationResult>>
  /\ \E m \in ModelTexts \cup {NULL} :
       directReturn(IF Falsy(m)
                    THEN Text("based_on_my_research", FALSE, {}, calculationResult, 0)
                    ELSE m)

\* ------------------------------------------------------------------------
\* createToolSelectionWorkflow: the wrapper that chooses the workflow
\* ------------------------------------------------------------------------
\* invoke: a bypass pattern and a search tool lead to the direct workflow,
\* anything else to the graph workflow.
workflowInvoke ==
  /\ pc = "idle"
  /\ dpc = "idle"
  /\ IF userQuery.bypass /\ serpApiTool
     THEN /\ dpc' = "plan"
          /\ UNCHANGED pc
     ELSE /\ pc' = "analyzeQuery"
          /\ UNCHANGED dpc
  /\ UNCHANGED <<userQuery, serpApiTool, stateVars, result, histVars, answer,
                 locationResults, calculationResult>>

\* invoke returns the response of the graph workflow's result.
workflowReturn ==
  /\ result # NoResult
  /\ answer = NoAnswer
  /\ answer' = result.response
  /\ UNCHANGED <<graphVars, directVars>>

\* ------------------------------------------------------------------------
\* Time.  The unit is 5 seconds.  Time passes only while an external call is
\* in progress; a call may return at any time or never.
\* ------------------------------------------------------------------------
\* The clock stops here.
MaxTime == 13

\* decompositionNode: TIMEOUT_MS = 10000.
TIMEOUT_MS == 2

\* aggregationNode: timeoutMs = 15000.
timeoutMs == 3

\* invoke: GLOBAL_TIMEOUT_MS = 60000.
GLOBAL_TIMEOUT_MS == 12

\* executeMultishotWorkflow: the timer of the response generation, 10000.
RESPONSE_TIMEOUT_MS == 2

\* executeMultishotWorkflow: the timer of one calculator call, 5000.
CALCULATOR_TIMEOUT_MS == 1

\* The calculation step makes two calculator calls in a row when the query
\* asks for an addition and a multiplication, one otherwise.
calculationTimeout(q) ==
  IF q.hasAdd /\ q.hasMul THEN 2 * CALCULATOR_TIMEOUT_MS ELSE CALCULATOR_TIMEOUT_MS

\* Graph nodes that await a collaborator.
CallNodes == {"analyzeQuery", "decomposeQuery", "aggregateResults"} \cup ToolNodes

\* A timer of the code has run out and its callback has not run yet.
TimerDue ==
  \/ pc \in GraphNodes /\ result = NoResult /\ now >= GLOBAL_TIMEOUT_MS
  \/ pc = "decomposeQuery" /\ now - since >= TIMEOUT_MS
  \/ pc = "aggregateResults" /\ now - since >= timeoutMs
  \/ dpc = "calculate" /\ now - since >= calculationTimeout(userQuery)
  \/ dpc = "respond" /\ now - since >= RESPONSE_TIMEOUT_MS

\* The node about to run awaits a collaborator: queryAnalysisNode only when
\* no pattern decides, serpApiNode only when a search tool is configured.
CallInProgress ==
  /\ pc \in CallNodes
  /\ pc = "analyzeQuery" =>
       ~(userQuery.multishot /\ serpApiTool) /\ patternSelection(userQuery) = "model"
  /\ pc = "executeSerpApi" => serpApiTool

Tick ==
  /\ now < MaxTime
  /\ answer = NoAnswer
  /\ result = NoResult
  /\ CallInProgress \/ dpc \in {"search", "calculate", "respond"}
  /\ ~TimerDue
  /\ now' = now + 1
  /\ UNCHANGED <<graphVars, answer, directVars, since, calcVars, other>>

\* A call raced against a timer of its own is in progress.
TimerRunning ==
  pc \in {"decomposeQuery", "aggregateResults"} \/ dpc \in {"calculate", "respond"}

\* A step takes no time; it starts the timer of the call it leads to.
Timed(step) ==
  step /\ since' = (IF TimerRunning' THEN now ELSE 0) /\ UNCHANGED <<now, calcVars, other>>

\* Answers of the decomposition model in the timed specification.
TimedDecompositions == { r \in ModelDecompositions : Len(r.items) <= 2 }

\* decompositionNode on these answers.  The race is over when the model
\* answers or throws, or when TIMEOUT_MS have passed (TimerDue).
decompositionNodeTimed == \E resp \in TimedDecompositions : decompositionStep(resp)

\* The global timer of invoke wins the race only when it has run out.
globalTimeoutTimed == now >= GLOBAL_TIMEOUT_MS /\ globalTimeout

TimedNext ==
  \/ Timed(workflowInvoke)
  \/ Timed(workflowReturn)
  \/ Timed(multishotPlan /\ UNCHANGED graphVars)
  \/ Timed(multishotSearch /\ UNCHANGED graphVars)
  \/ Timed(multishotCalculate /\ UNCHANGED graphVars)
  \/ Timed(multishotRespond /\ UNCHANGED graphVars)
  \/ Timed(queryAnalysisNode /\ UNCHANGED <<answer, directVars>>)
  \/ Timed(routeToToolNode /\ UNCHANGED <<answer, directVars>>)
  \/ Timed(calculatorNode /\ UNCHANGED <<answer, directVars>>)
  \/ Timed(serpApiNode /\ UNCHANGED <<answer, directVars>>)
  \/ Timed(ragNode /\ UNCHANGED <<answer, directVars>>)
  \/ Timed(decompositionNodeTimed /\ UNCHANGED <<answer, directVars>>)
  \/ Timed(subQuestionRouterNode /\ UNCHANGED <<answer, directVars>>)
  \/ Timed(resultsCollectorNode /\ UNCHANGED <<answer, directVars>>)
  \/ Timed(aggregationNode /\ UNCHANGED <<answer, directVars>>)
  \/ Timed(graphRuntimeThrows /\ UNCHANGED <<answer, directVars>>)
  \/ Timed(invokeReturn /\ UNCHANGED <<answer, directVars>>)
  \/ Timed(globalTimeoutTimed /\ UNCHANGED <<answer, directVars>>)
  \/ Tick

SpecTimed == Start("idle") /\ [][TimedNext]_vars

\* The direct workflow on the queries a bypass pattern sends to it, with a
\* search tool configured.
DirectQueries == { q \in Queries : q.bypass } \cup {QTotal, QCombinedTimes}

DirectInit ==
  /\ StartOn("idle", DirectQueries)
  /\ serpApiTool = TRUE
  /\ NoExpression
  /\ other = NoRun

DirectNext ==
  \/ Timed(workflowInvoke)
  \/ Timed(multishotPlan /\ UNCHANGED graphVars)
  \/ Timed(multishotSearch /\ UNCHANGED graphVars)
  \/ Timed(multishotCalculate /\ UNCHANGED graphVars)
  \/ Timed(multishotRespond /\ UNCHANGED graphVars)
  \/ Tick

DirectSpec == DirectInit /\ [][DirectNext]_vars

\* ------------------------------------------------------------------------
\* Result strings and extractNumericValue
\* ------------------------------------------------------------------------
\* A string is a sequence of symbols: a digit, ",", ".", "-", " ", the word
\* "million", or "w" for any other run of letters and punctuation.
Digits == {"0", "1", "2", "3", "4", "5", "6", "7", "8", "9"}

\* The longest result text the model enumerates, in symbols.
MaxLen == 4

\* The symbols result texts are made of.
Symbols == {"2", "5", ",", ".", "-", " ", "million", "w"}

AllSymbols == Symbols \cup Digits

\* A value of type string | null.  form is "null" for null, "json" for a
\* string JSON.parse turns into an object, "text" for any other string.  For
\* an object, kg and ab are knowledge_graph.population and
\* answer_box.population (<<>> when missing) and fields the top-level string
\* and number values in key order; chars is the text itself.
Str(kind, text, kgPopulation, abPopulation, values) ==
  [form |-> kind, chars |-> text, kg |-> kgPopulation, ab |-> abPopulation,
   fields |-> values]

RawText(text) == Str("text", text, <<>>, <<>>, <<>>)

NullStr == Str("null", <<>>, <<>>, <<>>, <<>>)

\* A top-level value of a JSON object: a number (chars is its toString) or a
\* string.
JsonValue(isNumber, text) == [num |-> isNumber, chars |-> text]

RECURSIVE Concat(_)
Concat(seqs) == IF seqs = <<>> THEN <<>> ELSE Head(seqs) \o Concat(Tail(seqs))

\* The text of a JSON object: each key with its punctuation is a "w", the
\* members are separated by ",".
stringify(kgPopulation, abPopulation, values) ==
  LET members == (IF kgPopulation = <<>> THEN <<>> ELSE << <<"w">> \o kgPopulation \o <<"w">> >>)
                 \o (IF abPopulation = <<>> THEN <<>> ELSE << <<"w">> \o abPopulation \o <<"w">> >>)
                 \o [i \in 1..Len(values) |-> <<"w">> \o values[i].chars]
  IN  <<"w">> \o Concat([i \in 1..Len(members) |->
                           IF i = 1 THEN members[i] ELSE <<",">> \o members[i]])
      \o <<"w">>

JsonObject(kgPopulation, abPopulation, values) ==
  Str("json", stringify(kgPopulation, abPopulation, values), kgPopulation, abPopulation,
      values)

\* JavaScript truthiness of a string | null value.
Truthy(x) == x.form # "null" /\ x.chars # <<>>

\* The first position from i on whose symbol is not in class.
RunEnd(s, i, class) ==
  CHOOSE j \in i..(Len(s) + 1) :
    /\ \A k \in i..(j - 1) : s[k] \in class
    /\ j = Len(s) + 1 \/ s[j] \notin class

\* (?:\.\d+)? at position i: the position after it.
FractionEnd(s, i) ==
  IF i < Len(s) /\ s[i] = "." /\ s[i + 1] \in Digits THEN RunEnd(s, i + 1, Digits) ELSE i

\* String.prototype.replace of every symbol outside keep by nothing.
RECURSIVE Keep(_, _)
Keep(s, keep) ==
  IF s = <<>> THEN <<>>
  ELSE (IF Head(s) \in keep THEN <<Head(s)>> ELSE <<>>) \o Keep(Tail(s), keep)

\* Number.prototype.toString drops the leading zeros of the integer part.
RECURSIVE StripZeros(_)
StripZeros(s) == IF Len(s) > 1 /\ Head(s) = "0" THEN StripZeros(Tail(s)) ELSE s

\* parseFloat(captured) * 1000000 as a string, for a capture \d+(\.\d+)? with
\* at most six decimals (the product is then an integer).
timesMillion(captured) ==
  LET intEnd == RunEnd(captured, 1, Digits)
      whole  == SubSeq(captured, 1, intEnd - 1)
      frac   == SubSeq(captured, intEnd + 1, Len(captured))
  IN  StripZeros(whole \o frac \o [i \in 1..(6 - Len(frac)) |-> "0"])

\* millionPattern: where /(\d+(?:\.\d+)?)\s*million/i matches first, and the
\* position after its capture; 0 when it does not match.
millionEnd(s, i) == FractionEnd(s, RunEnd(s, i, Digits))

millionStart(s) ==
  FindIndex({ i \in 1..Len(s) :
                /\ s[i] \in Digits
                /\ LET word == RunEnd(s, millionEnd(s, i), {" "})
                   IN  word <= Len(s) /\ s[word] = "million" })

\* formattedNumberPattern /[\d,]+(?:\.\d+)?/: its first match, <<>> for none.
formattedStart(s) == FindIndex({ i \in 1..Len(s) : s[i] \in Digits \cup {","} })

\* Variant of formattedMatch without the decimal part: /[\d,]+/.
formattedMatchInteger(s) ==
  IF formattedStart(s) = 0 THEN <<>>
  ELSE SubSeq(s, formattedStart(s), RunEnd(s, formattedStart(s), Digits \cup {","}) - 1)

formattedMatch(s) ==
  IF formattedStart(s) = 0 THEN <<>>
  ELSE SubSeq(s, formattedStart(s),
              FractionEnd(s, RunEnd(s, formattedStart(s), Digits \cup {","})) - 1)

\* plainNumberPattern /\d+(?:\.\d+)?/: its first match, <<>> for none.
plainStart(s) == FindIndex({ i \in 1..Len(s) : s[i] \in Digits })

plainMatch(s) ==
  IF plainStart(s) = 0 THEN <<>>
  ELSE SubSeq(s, plainStart(s), FractionEnd(s, RunEnd(s, plainStart(s), Digits)) - 1)

\* /[\d,]+/ on a string value of a JSON object: its first match.
numericMatch(s) ==
  SubSeq(s, formattedStart(s), RunEnd(s, formattedStart(s), Digits \cup {","}) - 1)

\* The loop over the keys of the object: the first number or string with a
\* digit or a comma, 0 for none.
numericField(values) ==
  FindIndex({ i \in 1..Len(values) :
                values[i].num \/ formattedStart(values[i].chars) # 0 })

\* The regular-expression part of extractNumericValue.
extractFromText(s) ==
  IF millionStart(s) # 0
  THEN RawText(timesMillion(SubSeq(s, millionStart(s), millionEnd(s, millionStart(s)) - 1)))
  ELSE IF formattedStart(s) # 0 THEN RawText(Keep(formattedMatch(s), AllSymbols \ {","}))
  ELSE IF plainStart(s) # 0 THEN RawText(plainMatch(s))
  ELSE NullStr

extractNumericValue(r) ==
  IF r.form = "json" /\ r.kg # <<>> THEN RawText(Keep(r.kg, Digits \cup {"."}))
  ELSE IF r.form = "json" /\ r.ab # <<>> THEN RawText(Keep(r.ab, Digits \cup {"."}))
  ELSE IF r.form = "json" /\ numericField(r.fields) # 0
  THEN LET value == r.fields[numericField(r.fields)]
       IN  IF value.num THEN RawText(value.chars)
           ELSE RawText(Keep(numericMatch(value.chars), AllSymbols \ {","}))
  ELSE extractFromText(r.chars)

\* The results extractNumericValue is applied to: every text of at most
\* MaxLen symbols, and search results as JSON objects: a population with
\* separators in knowledge_graph, one with a unit in answer_box, a negative
\* number, a string with a comma before a number, no usable member.
ResultTexts == UNION { { RawText(s) : s \in [1..n -> Symbols] } : n \in 0..MaxLen }

JsonResults ==
  { JsonObject(<<"2", ",", "5">>, <<>>, <<>>),
    JsonObject(<<>>, <<"2", ".", "5", "w">>, <<>>),
    JsonObject(<<>>, <<>>, <<JsonValue(TRUE, <<"-", "5">>)>>),
    JsonObject(<<>>, <<>>, <<JsonValue(FALSE, <<"w", ",", "w">>), JsonValue(TRUE, <<"2">>)>>),
    JsonObject(<<>>, <<>>, <<JsonValue(FALSE, <<"w">>)>>) }

ExtractInit ==
  /\ StartGraph("idle")
  /\ userQuery = QPlain
  /\ serpApiTool = TRUE
  /\ expression = <<>>
  /\ sanitizedExpression = <<>>
  /\ priorResults = <<>>
  /\ cpc = "idle"
  /\ roundTrip = [stage |-> "idle"]
  /\ other = NoRun
  /\ \E r \in ResultTexts \cup JsonResults : extracted = <<r>>

\* extractNumericValue is applied to the result, then to what it returned.
extractStep ==
  /\ Len(extracted) \in 1..2
  /\ extracted[Len(extracted)] # NullStr
  /\ extracted' = Append(extracted, extractNumericValue(extracted[Len(extracted)]))
  /\ UNCHANGED <<graphVars, answer, directVars, timeVars, other, expression,
                 sanitizedExpression, priorResults, cpc, roundTrip>>

ExtractSpec == ExtractInit /\ [][extractStep]_vars

\* ------------------------------------------------------------------------
\* resolveCalculatorDependencies and the sanitization of calculatorNode
\* ------------------------------------------------------------------------
\* An expression is a sequence of tokens separated by blanks: a number, a
\* reference qN, an operator or a parenthesis, a Sum(...) call with its
\* arguments, or a word.
Token(type, n, text, list) == [t |-> type, id |-> n, chars |-> text, args |-> list]

Num(text) == Token("num", 0, text, <<>>)

Ref(n) == Token("ref", n, <<>>, <<>>)

Op(o) == Token(o, 0, <<>>, <<>>)

Word == Token("word", 0, <<>>, <<>>)

SumCall(list) == Token("sum", 0, <<>>, list)

\* The digits of a reference qN.
idDigits(n) == << <<"1", "2", "3", "4", "5", "6", "7", "8", "9">>[n] >>

\* The value a reference resolves to, NullStr when the result is missing or
\* empty or no value is extracted from it.
resolved(n, results) ==
  IF n \in DOMAIN results /\ Truthy(results[n]) /\ Truthy(extractNumericValue(results[n]))
  THEN extractNumericValue(results[n])
  ELSE NullStr

\* The replacement of the first Sum(...) call by an addition in parentheses.
sumArgument(arg, results) ==
  IF arg.t # "ref" THEN arg
  ELSE IF resolved(arg.id, results) # NullStr THEN Num(resolved(arg.id, results).chars)
  ELSE Num(<<"0">>)

sumExpression(list, results) ==
  <<Op("(")>>
  \o Concat([i \in 1..Len(list) |->
               IF i = 1 THEN <<sumArgument(list[i], results)>>
               ELSE <<Op("+"), sumArgument(list[i], results)>>])
  \o <<Op(")")>>

\* The replacement of a reference by its value; an unresolved one stays.
dependencyValue(tok, results) ==
  IF tok.t = "ref" /\ resolved(tok.id, results) # NullStr
  THEN Num(resolved(tok.id, results).chars)
  ELSE tok

RECURSIVE resolveCalculatorDependencies(_, _)
resolveCalculatorDependencies(expr, results) ==
  LET sumMatch == FindIndex({ i \in 1..Len(expr) : expr[i].t = "sum" })
  IN  IF sumMatch # 0
      THEN resolveCalculatorDependencies(
             SubSeq(expr, 1, sumMatch - 1)
             \o sumExpression(expr[sumMatch].args, results)
             \o SubSeq(expr, sumMatch + 1, Len(expr)),
             results)
      ELSE [i \in 1..Len(expr) |-> dependencyValue(expr[i], results)]

\* /(\d+)\s+(\d+)/g -> '$1 + $2': a token that ends with a digit followed by
\* a number gets a "+" in between; the scan goes on after the second one.
RECURSIVE joinNumbers(_)
joinNumbers(expr) ==
  IF Len(expr) < 2 THEN expr
  ELSE IF expr[1].t \in {"num", "ref"} /\ expr[2].t = "num"
  THEN <<expr[1], Op("+"), expr[2]>> \o joinNumbers(SubSeq(expr, 3, Len(expr)))
  ELSE <<expr[1]>> \o joinNumbers(Tail(expr))

\* /[^0-9+\-*/().\s]/g -> '': a word disappears, of a reference qN the
\* digits stay, of a number the digits, the point and the sign.
RECURSIVE removeOthers(_)
removeOthers(expr) ==
  IF expr = <<>> THEN <<>>
  ELSE (IF Head(expr).t \in {"word", "sum"} THEN <<>>
        ELSE IF Head(expr).t = "ref" THEN <<Num(idDigits(Head(expr).id))>>
        ELSE IF Head(expr).t = "num"
        THEN <<Num(Keep(Head(expr).chars, Digits \cup {".", "-"}))>>
        ELSE <<Head(expr)>>)
       \o removeOthers(Tail(expr))

sanitize(expr) == removeOthers(joinNumbers(expr))

\* The expressions the model may answer the expression prompt with:
\* "q1 + q2", "q1 * 5", "Sum(q1, q2)", "Sum(q1, q2) * 5", "(q1 + q2) * 5",
\* "2 + 5", "2 5", a sentence, and "the result of q1 times 5".
ModelExpressions ==
  { <<Ref(1), Op("+"), Ref(2)>>,
    <<Ref(1), Op("*"), Num(<<"5">>)>>,
    <<SumCall(<<Ref(1), Ref(2)>>)>>,
    <<SumCall(<<Ref(1), Ref(2)>>), Op("*"), Num(<<"5">>)>>,
    <<Op("("), Ref(1), Op("+"), Ref(2), Op(")"), Op("*"), Num(<<"5">>)>>,
    <<Num(<<"2">>), Op("+"), Num(<<"5">>)>>,
    <<Num(<<"2">>), Num(<<"5">>)>>,
    <<Word>>,
    <<Word, Ref(1), Word, Num(<<"5">>)>> }

\* Results of earlier sub-questions: a text without a number, a number, a
\* text with a comma before its number, an empty text, a search result with
\* a population field.
PriorTexts ==
  { RawText(<<"w">>),
    RawText(<<"2", "5">>),
    RawText(<<"w", ",", "w", "2">>),
    RawText(<<>>),
    JsonObject(<<"2", ",", "5">>, <<>>, <<>>) }

PriorResults ==
  UNION { [ids -> PriorTexts] : ids \in SUBSET {1, 2} }

\* calculatorNode with a multishot calculation, after the model's answer to
\* the expression prompt.
ResolverInit ==
  /\ StartGraph("idle")
  /\ userQuery = QPlain
  /\ serpApiTool = TRUE
  /\ expression \in ModelExpressions
  /\ priorResults \in PriorResults
  /\ sanitizedExpression = <<>>
  /\ cpc = "generated"
  /\ extracted = <<>>
  /\ roundTrip = [stage |-> "idle"]
  /\ other = NoRun

resolveStep ==
  /\ cpc = "generated"
  /\ expression' = resolveCalculatorDependencies(expression, priorResults)
  /\ cpc' = "resolved"
  /\ UNCHANGED <<sanitizedExpression, priorResults, extracted, roundTrip>>

\* The sanitization; an empty outcome throws, anything else is handed to
\* calculatorTool.invoke.
sanitizeStep ==
  /\ cpc = "resolved"
  /\ sanitizedExpression' = sanitize(expression)
  /\ cpc' = (IF sanitize(expression) = <<>> THEN "catch" ELSE "invoke")
  /\ UNCHANGED <<expression, priorResults, extracted, roundTrip>>

ResolverNext ==
  \/ resolveStep /\ UNCHANGED <<graphVars, answer, directVars, timeVars, other>>
  \/ sanitizeStep /\ UNCHANGED <<graphVars, answer, directVars, timeVars, other>>

ResolverSpec == ResolverInit /\ [][ResolverNext]_vars

\* ------------------------------------------------------------------------
\* Two runs on one workflow object
\* ------------------------------------------------------------------------
\* Everything invoke creates for a run: its argument, initialState as the
\* nodes changed it, the position of the chain and what was observed of it.
suspended ==
  [userQuery |-> userQuery, pc |-> pc, query |-> query, selectedTool |-> selectedTool,
   toolOutput |-> toolOutput, finalResponse |-> finalResponse,
   requiresDecomposition |-> requiresDecomposition, isMultishot |-> isMultishot,
   subQuestions |-> subQuestions, currentSubQuestion |-> currentSubQuestion,
   intermediateResults |-> intermediateResults,
   processingComplete |-> processingComplete, result |-> result, invoked |-> invoked,
   executed |-> executed, lastOutcome |-> lastOutcome, thrown |-> thrown,
   handedOver |-> handedOver, analyzed |-> analyzed, decomposedBy |-> decomposedBy,
   expiry |-> expiry]

\* Variant of ownResults with one results map for the workflow object.
sharedResults(run) == intermediateResults

\* The results map a run works on: the one its initialState was created with.
ownResults(run) == run.intermediateResults

\* The run that waited goes on where it was, on its own state.
resume(run) ==
  /\ userQuery' = run.userQuery
  /\ pc' = run.pc
  /\ query' = run.query
  /\ selectedTool' = run.selectedTool
  /\ toolOutput' = run.toolOutput
  /\ finalResponse' = run.finalResponse
  /\ requiresDecomposition' = run.requiresDecomposition
  /\ isMultishot' = run.isMultishot
  /\ subQuestions' = run.subQuestions
  /\ currentSubQuestion' = run.currentSubQuestion
  /\ intermediateResults' = ownResults(run)
  /\ processingComplete' = run.processingComplete
  /\ result' = run.result
  /\ invoked' = run.invoked
  /\ executed' = run.executed
  /\ lastOutcome' = run.lastOutcome
  /\ thrown' = run.thrown
  /\ handedOver' = run.handedOver
  /\ analyzed' = run.analyzed
  /\ decomposedBy' = run.decomposedBy
  /\ expiry' = run.expiry

\* At an await the event loop goes on with the other run.
switch ==
  /\ other # NoRun
  /\ other' = suspended
  /\ resume(other)
  /\ UNCHANGED <<serpApiTool, answer, directVars, timeVars, calcVars>>

\* invoke is called twice on the workflow object before either chain has
\* run a node: a query no pattern matches and a calculation.
TwoRunInit ==
  /\ StartGraph("analyzeQuery")
  /\ NoExpression
  /\ userQuery = QPlain
  /\ serpApiTool = TRUE
  /\ other = [suspended EXCEPT !.userQuery = QCalcOnly, !.query = QCalcOnly]

TwoRunNext ==
  \/ Untimed(queryAnalysisNode)
  \/ Untimed(routeToToolNode)
  \/ Untimed(calculatorNode)
  \/ Untimed(serpApiNode)
  \/ Untimed(ragNode)
  \/ Untimed(decompositionNodeTimed)
  \/ Untimed(subQuestionRouterNode)
  \/ Untimed(resultsCollectorNode)
  \/ Untimed(aggregationNode)
  \/ Untimed(graphRuntimeThrows)
  \/ Untimed(invokeReturn)
  \/ Untimed(globalTimeout)
  \/ switch

TwoRunSpec == TwoRunInit /\ [][TwoRunNext]_vars

\* ------------------------------------------------------------------------
\* Serialization of a sub-question list and the Decomposer's parser
\* ------------------------------------------------------------------------
\* The sub-question lists that are serialized: the ids, tool types and
\* dependencies of Items with the tool types of a sub-question the
\* Decomposer accepts, the question texts in the order of the positions or
\* in the reverse order, every sub-question pending or every one completed
\* with a result.
SubQuestionList(n, idv, tp, dsel, rev, done) ==
  [i \in 1..n |->
     [id |-> ItemId(i, idv), question |-> ModelQuestion(IF rev THEN n + 1 - i ELSE i),
      toolType |-> ItemTool(i, n, tp), dependsOn |-> ItemDeps(i, n, idv, dsel[i]),
      completed |-> done,
      result |-> IF done THEN Text("search", FALSE, {}, 100, 0) ELSE NULL]]

SubQuestionLists ==
  UNION { { SubQuestionList(n, idv, tp, dsel, rev, done) :
              idv \in IdVariants, tp \in {"allSerp", "lastCalc", "allCalc"},
              dsel \in DepPatterns(n), rev \in BOOLEAN, done \in BOOLEAN } :
          n \in 1..MaxSubQ }

\* JSON.stringify({subQuestions: list}): a text in JSON form whose items are
\* the sub-questions with all their members.
serialize(list) == [form |-> "json", items |-> list]

RoundTripInit ==
  /\ StartGraph("idle")
  /\ userQuery = QPlain
  /\ serpApiTool = TRUE
  /\ expression = <<>>
  /\ sanitizedExpression = <<>>
  /\ priorResults = <<>>
  /\ cpc = "idle"
  /\ extracted = <<>>
  /\ other = NoRun
  /\ \E list \in SubQuestionLists : roundTrip = [stage |-> "list", list |-> list]

serializeStep ==
  /\ roundTrip.stage = "list"
  /\ roundTrip' = [stage |-> "text", list |-> roundTrip.list,
                   text |-> serialize(roundTrip.list)]

parseStep ==
  /\ roundTrip.stage = "text"
  /\ roundTrip' = [stage |-> "parsed", list |-> roundTrip.list, text |-> roundTrip.text,
                   parsed |-> parseDecomposition(roundTrip.text, userQuery)]

RoundTripNext ==
  \/ serializeStep /\ UNCHANGED <<graphVars, answer, directVars, timeVars, other,
                                 expression, sanitizedExpression, priorResults, cpc,
                                 extracted>>
  \/ parseStep /\ UNCHANGED <<graphVars, answer, directVars, timeVars, other,
                             expression, sanitizedExpression, priorResults, cpc,
                             extracted>>

RoundTripSpec == RoundTripInit /\ [][RoundTripNext]_vars

\* Answers of the decomposition model for the tiers of the parser: those of
\* ModelDecompositions that reach the parser, and answers whose last item
\* has no tool type.
TierAnswers ==
  { r \in ModelDecompositions : r.form \notin {"timeout", "critical"} }
  \cup { [form |-> f, items |-> Items(n, "canonical", "lastMissing", [i \in 1..n |-> "none"])] :
           f \in {"json", "prose", "bare"}, n \in 1..MaxSubQ }

TierInit ==
  /\ StartGraph("idle")
  /\ userQuery \in {QPlain, QScenB}
  /\ serpApiTool = TRUE
  /\ expression = <<>>
  /\ sanitizedExpression = <<>>
  /\ priorResults = <<>>
  /\ cpc = "idle"
  /\ extracted = <<>>
  /\ other = NoRun
  /\ \E resp \in TierAnswers : roundTrip = [stage |-> "text", list |-> <<>>, text |-> resp]

TierNext ==
  parseStep /\ UNCHANGED <<graphVars, answer, directVars, timeVars, other,
                            expression, sanitizedExpression, priorResults, cpc, extracted>>

TierSpec == TierInit /\ [][TierNext]_vars

\* ------------------------------------------------------------------------
\* Properties
\* ------------------------------------------------------------------------
Ids(subs) == { subs[i].id : i \in 1..Len(subs) }

DepEdges(subs) ==
  UNION { { <<subs[i].id, d>> : d \in Range(subs[i].dependsOn) } : i \in 1..Len(subs) }

Succ(S, E) == { e[2] : e \in { x \in E : x[1] \in S } }

RECURSIVE Closure(_, _)
Closure(S, E) ==
  LET T == S \cup Succ(S, E) IN IF T = S THEN S ELSE Closure(T, E)

HasCycle(subs) == \E e \in DepEdges(subs) : e[1] \in Closure({e[2]}, DepEdges(subs))

EmergencyKinds == {"emergency_population", "emergency_gathered"}

\* C1: the result invoke returns carries a non-empty response; when
\* finalResponse is null or empty after a multishot run the response is the
\* templated message built from the sub-question results, and otherwise the
\* fixed fallback sentence.
C1_ResponseNeverEmpty ==
  result.status = "returned" =>
    /\ ~Falsy(result.response)
    /\ (result.via = "return" /\ Falsy(finalResponse)) =>
         IF isMultishot
         THEN result.response.k \in EmergencyKinds
         ELSE result.response = Fixed("couldnt_process")

\* The messages invoke answers with after something was thrown.
FailureMessages ==
  { Fixed("system_error"), Fixed("partial_results_none_available"),
    Fixed("error_while_processing"), Fixed("issue_while_processing") }

\* C2: invoke never rejects: whatever was thrown (by a node, by the graph
\* runtime, by an unroutable edge or by the global timer), the caller gets a
\* returned result whose response is one of the failure messages.
C2_InvokeNeverRejects ==
  result # NoResult =>
    /\ result.status = "returned"
    /\ ~Falsy(result.response)
    /\ (thrown # "none" \/ result.via = "catch") => result.response \in FailureMessages

C2_Witness ==
  /\ result.status = "returned"
  /\ result.via = "return"
  /\ thrown = "unroutable"

NoDuplicates(s) == \A i, j \in 1..Len(s) : s[i] = s[j] => i = j

\* C3: every run ends (the chain reaches END and the caller has its result),
\* no sub-question is handed to a tool twice and at most as many tool
\* executions happen as there are sub-questions.
C3_ExecutedAtMostOnce ==
  /\ NoDuplicates(executed)
  /\ isMultishot => Len(executed) <= Len(subQuestions)

C4_ReturnsWithinCeiling == answer = NoAnswer => now <= GLOBAL_TIMEOUT_MS

\* C5: in single-tool mode, when the calculator or the search adapter threw,
\* the Direct executor ran afterwards and the response is its answer.
C5_FallsBackToDirect ==
  ( /\ result.status = "returned"
    /\ result.via = "return"
    /\ thrown = "none"
    /\ ~isMultishot
    /\ lastOutcome = "tool_throws"
    /\ invoked \cap {"calculator", "serpapi"} # {} )
  => /\ "rag" \in invoked
     /\ result.response.k \in {"rag", "apology"}

\* C6: in multishot mode a tool call that throws leads to collectResults,
\* and the collector stores the failure text under the current
\* sub-question's id, marks that sub-question completed and hands over to
\* the next eligible sub-question or to Aggregate.
C6_FailureRecorded ==
  [][ /\ ( /\ pc \in ToolNodes
           /\ isMultishot
           /\ thrown' = thrown
           /\ lastOutcome' = "tool_throws"
           /\ executed' # executed )
         => pc' = "collectResults"
      /\ ( /\ pc = "collectResults"
           /\ lastOutcome = "tool_throws"
           /\ currentSubQuestion # NoSubQ
           /\ pc' \in {"routeSubQuestion", "aggregateResults"} )
         => /\ currentSubQuestion.id \in DOMAIN intermediateResults'
            /\ "Error" \in intermediateResults'[currentSubQuestion.id].marks
            /\ intermediateResults'[currentSubQuestion.id].of = currentSubQuestion.id
            /\ \A i \in 1..Len(subQuestions') :
                 subQuestions'[i].id = currentSubQuestion.id =>
                   /\ subQuestions'[i].completed
                   /\ subQuestions'[i].result = intermediateResults'[currentSubQuestion.id]
            /\ pc' = "routeSubQuestion" =>
                 /\ currentSubQuestion' # NoSubQ
                 /\ ~currentSubQuestion'.completed ]_vars

C6_Witness ==
  /\ pc = "routeSubQuestion"
  /\ lastOutcome = "tool_throws"
  /\ handedOver = "continue"
  /\ \E i \in DOMAIN intermediateResults : "Error" \in intermediateResults[i].marks

\* C7: a sub-question handed to a tool is an entry of the list, is not
\* completed, and each id in its dependsOn is the id of a completed
\* sub-question of the list.
C7_HandedOverEligible ==
  (pc \in ToolNodes \cup {"routeSubQuestion"} /\ isMultishot /\ currentSubQuestion # NoSubQ)
  => /\ \E i \in 1..Len(subQuestions) : subQuestions[i] = currentSubQuestion
     /\ ~currentSubQuestion.completed
     /\ \A d \in Range(currentSubQuestion.dependsOn) :
          \E j \in 1..Len(subQuestions) : subQuestions[j].id = d /\ subQuestions[j].completed

C7_Witness ==
  /\ pc \in ToolNodes
  /\ isMultishot
  /\ handedOver = "continue"
  /\ currentSubQuestion # NoSubQ
  /\ Len(currentSubQuestion.dependsOn) > 0

\* C8: the Decomposer hands over a non-empty sub-question list with at
\* least one sub-question that has no unmet dependency.
C8_DecompositionNonEmpty ==
  (pc = "routeSubQuestion" /\ isMultishot /\ handedOver = "none")
  => /\ Len(subQuestions) > 0
     /\ NextEligible(subQuestions) # 0

\* C9: in the list the Decomposer hands over, every id in a dependsOn is the
\* id of a sub-question of the list and the dependency relation is acyclic.
C9_DependenciesWellFormed ==
  (pc = "routeSubQuestion" /\ isMultishot /\ handedOver = "none")
  => /\ \A e \in DepEdges(subQuestions) : e[2] \in Ids(subQuestions)
     /\ ~HasCycle(subQuestions)

\* C10: when the collector hands over to Aggregate, every sub-question is
\* completed or a safety valve (force termination, 20-completed ceiling)
\* has been reached.
C10_HandOverJustified ==
  [][ (pc = "collectResults" /\ pc' = "aggregateResults")
      => \/ \A i \in 1..Len(subQuestions') : subQuestions'[i].completed
         \/ forceTermination(subQuestions')
         \/ CompletedCount(subQuestions') > StepCeiling ]_vars

\* The errors of the graph runtime.
RuntimeErrors == {"InvalidUpdateError", "GraphRecursionError"}

\* A step in which queryAnalysisNode runs to its end or throws.
AnalysisStep ==
  pc = "analyzeQuery" /\ pc' # "analyzeQuery" /\ thrown' \notin RuntimeErrors

\* C11: for a query that matches a calculator pattern and no composite
\* pattern, query analysis selects the calculator with requiresDecomposition
\* false and without calling the model, whether or not a search pattern
\* matches and whether or not a search tool is configured.
C11_CalculatorPatternWins ==
  [][ (AnalysisStep /\ userQuery.calc /\ ~userQuery.multishot)
      => /\ selectedTool' = "calculator"
         /\ requiresDecomposition' = FALSE
         /\ pc' = "routeToTool"
         /\ invoked' = invoked
         /\ analyzed' = NotAnalyzed ]_vars

C11_Witness ==
  /\ pc = "routeToTool"
  /\ userQuery.calc /\ userQuery.serp /\ ~userQuery.multishot
  /\ serpApiTool
  /\ selectedTool = "calculator"
  /\ invoked = {}

\* C12: the composite patterns are tested first: a query matching one is
\* sent to Decompose exactly when a search tool is configured, whatever the
\* calculator and search patterns say and without a model call; with no
\* search tool the composite match is ignored and the single-tool
\* classification decides.
C12_CompositeFirst ==
  [][ (AnalysisStep /\ userQuery.multishot)
      => /\ (pc' = "decomposeQuery") <=> serpApiTool
         /\ serpApiTool => (requiresDecomposition' /\ invoked' = invoked)
         /\ ~serpApiTool =>
              /\ requiresDecomposition' = FALSE
              /\ patternSelection(userQuery) # "model" =>
                   /\ selectedTool' = patternSelection(userQuery)
                   /\ invoked' = invoked ]_vars

\* No composite, calculator or search pattern matches the query.
NoPattern(q) == ~q.multishot /\ ~q.calc /\ ~q.serp

\* The analyzer's answer contains none of the labels that count: multishot,
\* calculator, and serpapi when a search tool is configured.
NoLabel ==
  /\ analyzed.asked
  /\ ~analyzed.threw
  /\ analyzed.labels \cap {"multishot", "calculator"} = {}
  /\ "serpapi" \in analyzed.labels => ~serpApiTool

\* C13: when no pattern matches and the analyzer's answer contains none of
\* the labels, the classification is Direct, only the Direct executor runs
\* and neither the calculator nor the search tool is invoked in the run.
C13_DefaultsToDirect ==
  (NoPattern(userQuery) /\ NoLabel)
  => /\ thrown = "none" => selectedTool = "rag"
     /\ ~requiresDecomposition
     /\ ~isMultishot
     /\ pc \in {"routeToTool", "executeRag", "END"}
     /\ invoked \subseteq {"model", "rag"}
     /\ (pc = "END" /\ thrown = "none") =>
          /\ "rag" \in invoked
          /\ finalResponse.k \in {"rag", "apology"}

C13_Witness ==
  /\ NoPattern(userQuery)
  /\ NoLabel
  /\ result.status = "returned"
  /\ result.via = "return"
  /\ result.toolUsed = "rag"
  /\ result.response.k = "rag"
  /\ invoked = {"model", "rag"}

\* C14: when the analyzer's model call throws, the error does not leave the
\* analysis step: the label is Direct and the run continues with the Direct
\* executor.
C14_AnalyzerThrowIsDirect ==
  analyzed.threw
  => /\ thrown # "Error"
     /\ thrown = "none" => selectedTool = "rag"
     /\ (pc = "END" /\ thrown = "none") => "rag" \in invoked

\* The chain has entered aggregateResults: in multishot mode END is reached
\* from aggregateResults only.
AggregateEntered == pc = "aggregateResults" \/ (pc = "END" /\ isMultishot)

\* C15: when the Decomposer's model call loses the race against its timer
\* (or rejects), the run continues in multishot mode with the template
\* decomposition of the query, and Aggregate is entered before the global
\* ceiling.
C15_TimeoutReachesAggregate ==
  decomposedBy = "timeout"
  => /\ (pc = "routeSubQuestion" /\ handedOver = "none") =>
          /\ isMultishot
          /\ subQuestions = createDefaultDecomposition(userQuery)
     /\ ~AggregateEntered => now < GLOBAL_TIMEOUT_MS

\* The texts that list the results of the completed sub-questions.
ListsResults(t) == t.k \in EmergencyKinds \cup {"manual_aggregation"}

\* C16: when a multishot run is cut off by the global timeout or by the
\* recursion limit after at least one sub-question has completed, the
\* response for the caller contains the results of the completed
\* sub-questions.
C16_CutOffKeepsResults ==
  [][ (isMultishot /\ CompletedCount(subQuestions) >= 1)
      => /\ (result = NoResult /\ result' # NoResult /\ result'.via = "catch")
              => ListsResults(result'.response)
         /\ (thrown = "none" /\ thrown' = "GraphRecursionError")
              => ListsResults(finalResponse') ]_vars

\* C17: once the global timer of a run has run out and the node that was in
\* progress has ended, the run calls neither the model nor the calculator
\* nor the search tool: none of them joins the collaborators called so far.
C17_NoCallAfterExpiry ==
  [][ expiry = "later"
      => invoked' \cap {"model", "calculator", "serpapi"}
           = invoked \cap {"model", "calculator", "serpapi"} ]_vars

\* C18: the query field of the run state never changes during a run: in
\* every state, and so when Aggregate builds the final answer, it is the
\* text the user submitted.
C18_QueryImmutable == query = userQuery

\* C19: for "population of Chicago plus population of Houston, multiplied by
\* 0.05" with a search tool, the composite pattern sends the query to
\* Decompose and, on the template path, the Decomposer hands over two search
\* sub-questions with empty dependsOn, a calculator sub-question depending
\* on both and a calculator sub-question depending on that one only.
C19_ScenarioBTemplate ==
  (userQuery = QScenB /\ serpApiTool)
  => /\ pc # "analyzeQuery" => (requiresDecomposition \/ thrown # "none")
     /\ ( /\ pc = "routeSubQuestion"
          /\ handedOver = "none"
          /\ decomposedBy \in {"timeout", "template"} )
        => /\ Len(subQuestions) = 4
           /\ \A i \in 1..2 : /\ subQuestions[i].toolType = "serpapi"
                               /\ subQuestions[i].dependsOn = <<>>
           /\ subQuestions[3].toolType = "calculator"
           /\ Range(subQuestions[3].dependsOn) = {subQuestions[1].id, subQuestions[2].id}
           /\ subQuestions[4].toolType = "calculator"
           /\ subQuestions[4].dependsOn = <<subQuestions[3].id>>

\* The query asks for a multiplication by a number: the number, in
\* hundredths ("multiplied by 0.05": 5, "times 3": 300).
AsksMultiplication(q) == q.hasMul /\ q.firstNum # NoNum

\* C20: in a multishot run whose query asks for a multiplication by m, when
\* Aggregate takes its manual path with two values extracted from the search
\* sub-questions, the value it states is their sum times m.
C20_ManualValueIsSumTimesM ==
  ( /\ pc = "END"
    /\ isMultishot
    /\ finalResponse.k = "manual_aggregation"
    /\ AsksMultiplication(userQuery)
    /\ Cardinality(populationResults(subQuestions)) = 2 )
  => finalResponse.num
       = Sum([i \in 1..Len(subQuestions) |-> subQuestions[i].result.num],
             populationResults(subQuestions)) * userQuery.firstNum

\* C21: when calculatorTool.invoke returns an error-looking string instead
\* of throwing (and the local re-evaluation of the expression gives no value
\* either), the calculator step ends as it does for a thrown error: the
\* output is the failure text of the catch block, single-tool mode selects
\* the Direct executor, and the error string is not the step's output.
C21_ErrorStringIsFailure ==
  [][ (pc = "executeCalculator" /\ lastOutcome' = "error_text")
      => /\ toolOutput'.k \in {"calculator_error", "calculator_error_multishot"}
         /\ toolOutput'.marks \cap {"error", "dontknow", "invalid"} = {}
         /\ ~isMultishot => selectedTool' = "rag" ]_vars

\* The number tokens of an expression.
Numbers(expr) == { i \in 1..Len(expr) : expr[i].t = "num" }

\* The references of an expression that resolveCalculatorDependencies left
\* unresolved.
Unresolved(expr) == { i \in 1..Len(expr) : expr[i].t = "ref" }

\* C22: when no numeric value can be extracted from the prior result a
\* reference of the expression points to, the expression handed to the
\* calculator contains no number standing in for the reference: it has as
\* many numbers as the resolved expression, and the reference is still in it.
C22_NoStandInNumber ==
  (cpc = "invoke" /\ Unresolved(expression) # {})
  => /\ Cardinality(Numbers(sanitizedExpression)) = Cardinality(Numbers(expression))
     /\ Unresolved(sanitizedExpression) # {}

C24_ToolUsedNamesExecutor ==
  (result.status = "returned" /\ result.via = "return" /\ thrown = "none")
  => IF isMultishot THEN result.toolUsed = "multishot"
     ELSE /\ result.toolUsed \in {"calculator", "serpapi", "rag"}
          /\ result.toolUsed \in invoked
          /\ ~Falsy(finalResponse) => result.response = finalResponse

\* A plain number in the sense of plainNumberPattern: digits, with an
\* optional decimal part.
PlainNumber(r) ==
  /\ r.form = "text"
  /\ r.chars # <<>>
  /\ r.chars[1] \in Digits
  /\ FractionEnd(r.chars, RunEnd(r.chars, 1, Digits)) = Len(r.chars) + 1

WellFormed(subs) ==
  /\ Cardinality(Ids(subs)) = Len(subs)
  /\ \A e \in DepEdges(subs) : e[2] \in Ids(subs)
  /\ ~HasCycle(subs)

\* C27: for a well-formed decomposition the safety valve does not cut the
\* run short: when Aggregate starts, every sub-question has been executed
\* and has a stored result.
C27_WellFormedRunsToTheEnd ==
  (pc = "aggregateResults" /\ isMultishot /\ WellFormed(subQuestions) /\ thrown = "none")
  => \A i \in 1..Len(subQuestions) :
       /\ subQuestions[i].completed
       /\ subQuestions[i].question.name \in Range(executed)
       /\ subQuestions[i].id \in DOMAIN intermediateResults

\* The transition graph as graph.addEdge and graph.addConditionalEdges
\* declare it.
Edges ==
  { <<"analyzeQuery", "decomposeQuery">>, <<"analyzeQuery", "routeToTool">>,
    <<"decomposeQuery", "routeSubQuestion">>,
    <<"routeSubQuestion", "aggregateResults">>,
    <<"routeSubQuestion", "routeSubQuestion">>,
    <<"collectResults", "routeSubQuestion">>, <<"collectResults", "aggregateResults">>,
    <<"aggregateResults", "END">> }
  \cup { <<"routeToTool", n>> : n \in ToolNodes }
  \cup { <<"routeSubQuestion", n>> : n \in ToolNodes }
  \cup { <<n, "collectResults">> : n \in ToolNodes }
  \cup { <<n, "END">> : n \in ToolNodes }

\* The declared edges other than the loop-back edge of the collector.
ForwardEdges == Edges \ { <<"collectResults", "routeSubQuestion">> }

\* C28: every cycle of the declared transition graph passes through
\* collectResults, the only loop-back edge being collectResults ->
\* routeSubQuestion: without that edge the node a run is at cannot be reached
\* from itself.
C28_LoopsThroughCollect ==
  \A e \in ForwardEdges : e[1] = pc => pc \notin Closure({e[2]}, ForwardEdges)


\* C29: every model, calculator and search call of the graph workflow is
\* raced against a timer of its own, so a call that never returns is given
\* up before the ceiling of the whole run: while the first node of a run that
\* awaits a collaborator is still waiting, the global timer has not run out.
C29_CallAbandonedByOwnTimer ==
  (CallInProgress /\ invoked = {} /\ result = NoResult /\ thrown = "none")
  => now < GLOBAL_TIMEOUT_MS


\* C30: the text resultsCollectorNode stores for a sub-question comes from
\* the tool execution made for that sub-question (or is a fixed text of the
\* code); it is never the toolOutput an earlier sub-question left in the
\* state.
C30_StoredResultIsOwn ==
  [][ (pc = "collectResults" /\ currentSubQuestion # NoSubQ
       /\ intermediateResults' # intermediateResults
       /\ currentSubQuestion.id \in DOMAIN intermediateResults')
      => intermediateResults'[currentSubQuestion.id].of \in {0, currentSubQuestion.id} ]_vars


\* C31: every sub-question the Decomposer hands over, on whichever path it
\* was produced, has a tool type the router can dispatch: serpapi or
\* calculator.
C31_RoutableToolTypes ==
  \A i \in 1..Len(subQuestions) : subQuestions[i].toolType \in {"serpapi", "calculator"}


\* C32: a run enters decomposeQuery only when a search tool is configured,
\* whether the pattern or the analyzer's model asked for the decomposition.
C32_DecomposeNeedsSearchTool ==
  (pc = "decomposeQuery" \/ requiresDecomposition \/ decomposedBy # "none") => serpApiTool


\* C33: the Decomposer's parser uses the result of the first tier that
\* yields a sub-question, in the order strict parse, extraction of the
\* array, field-by-field extraction (which yields something only when there
\* are as many ids as questions and tool types, and at least one), template.
C33_TiersInOrder ==
  roundTrip.stage = "parsed" =>
    LET t == roundTrip.text
        p == roundTrip.parsed
    IN  /\ strictParse(t) # <<>> => p = strictParse(t)
        /\ (strictParse(t) = <<>> /\ arrayExtraction(t) # <<>>) => p = arrayExtraction(t)
        /\ (strictParse(t) = <<>> /\ arrayExtraction(t) = <<>> /\ fieldExtraction(t) # <<>>)
             => p = fieldExtraction(t)
        /\ (strictParse(t) = <<>> /\ arrayExtraction(t) = <<>> /\ fieldExtraction(t) = <<>>)
             => p = createDefaultDecomposition(userQuery)
        /\ fieldExtraction(t) # <<>> => toolTypeMatches(t) = Len(t.items)
        /\ p # <<>>

C33_Witness ==
  /\ roundTrip.stage = "parsed"
  /\ roundTrip.text.form = "bare"
  /\ Len(roundTrip.text.items) = 3
  /\ roundTrip.text.items[3].toolType = ""
  /\ roundTrip.parsed = arrayExtraction(roundTrip.text)
  /\ Len(roundTrip.parsed) = 2
  /\ fieldExtraction(roundTrip.text) = <<>>


\* C34: for a result that is not JSON and has no "<number> million", a text
\* with a digit yields a non-empty digit string that holds the first digit of
\* the text; only a text without a digit yields no value.
C34_FirstNumberOfText ==
  (Len(extracted) >= 2 /\ extracted[1].form = "text"
   /\ millionStart(extracted[1].chars) = 0 /\ plainStart(extracted[1].chars) # 0)
  => /\ extracted[2].form = "text"
     /\ extracted[2].chars # <<>>
     /\ extracted[1].chars[plainStart(extracted[1].chars)] \in Range(extracted[2].chars)
     /\ \A i \in 1..Len(extracted[2].chars) : extracted[2].chars[i] \in Digits \cup {"."}


\* aggregationNode takes the manual aggregation and does not call the model.
ManualAggregation ==
  calculatorFailed(subQuestions) /\ Cardinality(populationResults(subQuestions)) >= 2

\* C35: the model call of aggregationNode is given up after timeoutMs, and
\* when it throws or is given up the node leaves the templated answer built
\* from the sub-questions of the state, which it keeps as they are, sets
\* processingComplete, and the chain goes on to END.
C35_AggregateFallback ==
  [][ (pc = "aggregateResults" /\ thrown = "none" /\ isMultishot)
      => /\ now - since <= timeoutMs
         /\ (/\ pc' = "END"
             /\ ~ManualAggregation
             /\ thrown' \notin {"InvalidUpdateError", "GraphRecursionError"}
             /\ ~(finalResponse' \in ModelTexts
                  /\ subQuestions' = allMarkedCompleted(subQuestions)))
            => /\ finalResponse' = Fixed("aggregation_fallback")
               /\ subQuestions' = subQuestions
               /\ processingComplete'
               /\ thrown' = "none" ]_vars

C35_Witness ==
  /\ pc = "END"
  /\ thrown = "none"
  /\ isMultishot
  /\ finalResponse = Fixed("aggregation_fallback")
  /\ processingComplete
  /\ Len(subQuestions) >= 2
  /\ \E i \in 1..Len(subQuestions) : ~subQuestions[i].completed /\ Falsy(subQuestions[i].result)
  /\ \E i \in 1..Len(subQuestions) : subQuestions[i].completed /\ ~Falsy(subQuestions[i].result)
  /\ now >= timeoutMs


\* C36: in the direct multishot workflow a search call that throws does not
\* end the run: when the workflow has returned, every location of the plan
\* has an entry in locationResults and the answer is not the sentence about
\* an error while searching.
C36_SearchFailureDoesNotAbort ==
  (dpc = "done" /\ userQuery.nLoc > 0)
  => /\ Len(locationResults) = userQuery.nLoc
     /\ answer.k # "error_while_searching"


\* The extracted population values of the direct workflow, in the order of
\* the locations.
ExtractedValues == { i \in 1..Len(locationResults) : locationResults[i].population # NoNum }

SumOfExtracted ==
  Sum([i \in 1..Len(locationResults) |-> locationResults[i].population], ExtractedValues)

FirstExtracted ==
  locationResults[CHOOSE i \in ExtractedValues : \A j \in ExtractedValues : i <= j].population

\* C37: in the direct workflow, with at least one population value extracted,
\* the calculation result (in hundredths) is the sum of the values when an
\* addition is detected, times the multiplier when a multiplication is
\* detected too, and the first value times the multiplier when only a
\* multiplication is detected, however the calculator's races ended.
C37_CalculationResult ==
  (dpc \in {"respond", "done"} /\ ExtractedValues # {}
   /\ Len(locationResults) = userQuery.nLoc /\ (userQuery.hasAdd \/ userQuery.hasMul))
  => calculationResult =
       (IF userQuery.hasAdd /\ userQuery.hasMul THEN SumOfExtracted * multiplier(userQuery)
        ELSE IF userQuery.hasAdd THEN SumOfExtracted * 100
        ELSE FirstExtracted * multiplier(userQuery))

C37_Witness ==
  /\ dpc = "respond"
  /\ userQuery.hasAdd /\ userQuery.hasMul
  /\ Len(locationResults) = 2
  /\ Cardinality(ExtractedValues) = 2
  /\ calculationResult = SumOfExtracted * multiplier(userQuery)
  /\ calculationResult > 0


\* C38: in a multishot run, up to the entry into aggregateResults, a
\* sub-question is completed exactly when its id is a key of
\* intermediateResults, its result is then the stored text, and a
\* sub-question that was not handed to a tool is not completed and has no
\* result.
C38_CompletedIffStored ==
  (isMultishot /\ thrown = "none"
   /\ pc \in {"routeSubQuestion", "collectResults", "aggregateResults"} \cup ToolNodes)
  => \A i \in 1..Len(subQuestions) :
       /\ subQuestions[i].completed <=> subQuestions[i].id \in DOMAIN intermediateResults
       /\ subQuestions[i].completed
            => subQuestions[i].result = intermediateResults[subQuestions[i].id]
       /\ subQuestions[i].question.name \notin Range(executed)
            => ~subQuestions[i].completed /\ subQuestions[i].result = NULL

====
